---- MODULE Spec2Model ----
(***************************************************************************)
(* A model of shinya/svg2png: the path mini-language scanners, the clip    *)
(* scope of the element renderer, the dash engine, the shape drivers'      *)
(* fill/stroke short-circuits, text font fallback and the shared font      *)
(* catalog.                                                                *)
(*                                                                         *)
(* Numbers of the path language are held in fixed point: a value v of the  *)
(* program is the integer v * Denom.  Strings are sequences of one-byte    *)
(* strings; positions are 1-based (Go's pos + 1).                          *)
(***************************************************************************)
EXTENDS Integers, Sequences, FiniteSets, TLC

VARIABLES
    \* ---- path scanners (raster: buildPath, buildStrokeRasterizer,
    \*      buildDashStrokeFromPath)
    data,      \* the path data string being scanned
    scanner,   \* which scanner runs: "fill", "stroke", "dash" ("none": idle)
    sc,        \* the scanner's local variables
    iters,     \* number of outer-loop iterations executed so far
    vp,        \* the viewport transform consumed by toPixel
    \* ---- font catalog and text drawing (font.Manager, font.Renderer,
    \*      RenderPNG, DrawText)
    mfonts,    \* Manager.fonts: <<family, style>> -> FontInfo data
    rfonts,    \* Renderer.fonts: key string -> loaded FontFace
    req,       \* the text element of the document being rendered
    cur,       \* the RenderPNG call in progress and the Renderer it fetched
    calls,     \* the RenderPNG calls made so far, with what each drew
    epoch,     \* number of RegisterFonts / ClearFontCache calls so far
    \* ---- concurrent use of the font catalog (goroutines calling the API)
    mu,        \* Manager.mu: the goroutine holding Lock, those holding RLock
    renderer,  \* Manager.renderer: which Renderer the pointer refers to
    thr,       \* per goroutine: where it is and the Renderer it fetched
    \* ---- stroke/dash engine (DrawLine, DrawPolyline, DrawEllipse, DrawPath:
    \*      dashThickLine, strokeSegmentsWithDash, buildDashStrokeFromPath)
    stroke,    \* the stroke operation: shape kind, segment lengths, dash array
    dpc,       \* "start", "line" / "segs" (inside a dash loop), "done"
    dk,        \* the dash loop's local variables
    runs,      \* the outlines handed to the rasterizer so far (thick-line
               \* quads, the ellipses of a ring)
    stalls,    \* consecutive dash-loop rounds that did not advance
    \* ---- element renderer and shape drivers (renderElement, PushClipPath,
    \*      PopClipPath, DrawRect, DrawEllipse, DrawLine, DrawPolyline,
    \*      DrawPath, DrawText)
    defs,      \* RasterContext.defs: the document's definitions, or nil
    rstack,    \* the groups renderElement is inside of, innermost last
    clipMask,  \* RasterContext.clipMask: the active clip mask, or nil
    last,      \* the element drawn last, with the steps its driver performed
    nelems,    \* number of elements rendered so far
    \* ---- compositor and gradient engine, one pixel at a time
    \*      (compositeAlpha, applyClipToAlpha, DrawLinearGradient,
    \*      DrawPatternFill, interpolateStops)
    px,        \* the pixel operation performed last and what it did
    \* ---- the render call (RenderPNG)
    res,       \* the call made last: its arguments and what it returned
    \* ---- drawing order (renderChildren, renderElement, renderText)
    ord        \* the document, the next child to render, the draws so far

pathVars == <<data, scanner, sc, iters, vp>>
fontVars == <<mfonts, rfonts, req, cur, calls, epoch>>
raceVars == <<mu, renderer, thr>>
dashVars == <<stroke, dpc, dk, runs, stalls>>
renderVars == <<defs, rstack, clipMask, last, nelems>>
pixVars == <<px>>
callVars == <<res>>
orderVars == <<ord>>
vars ==
    <<pathVars, fontVars, raceVars, dashVars, renderVars, pixVars, callVars,
      orderVars>>
nonPathVars ==
    <<fontVars, raceVars, dashVars, renderVars, pixVars, callVars,
      orderVars>>
nonFontVars ==
    <<pathVars, raceVars, dashVars, renderVars, pixVars, callVars,
      orderVars>>
nonRaceVars ==
    <<pathVars, fontVars, dashVars, renderVars, pixVars, callVars,
      orderVars>>
nonDashVars ==
    <<pathVars, fontVars, raceVars, renderVars, pixVars, callVars,
      orderVars>>
nonRenderVars ==
    <<pathVars, fontVars, raceVars, dashVars, pixVars, callVars,
      orderVars>>
nonPixVars ==
    <<pathVars, fontVars, raceVars, dashVars, renderVars, callVars,
      orderVars>>
nonCallVars ==
    <<pathVars, fontVars, raceVars, dashVars, renderVars, pixVars,
      orderVars>>
nonOrderVars ==
    <<pathVars, fontVars, raceVars, dashVars, renderVars, pixVars, callVars>>

\* Each specification below runs one part of the program; the variables of
\* the other parts rest at these values.
PathIdle ==
    data = <<>> /\ scanner = "none" /\ sc = <<>> /\ iters = 0 /\ vp = <<>>

\* No RenderPNG call in progress.
NoRender ==
    [pc |-> "idle", scan |-> FALSE, epoch |-> 0, live |-> TRUE, fonts |-> <<>>,
     k |-> 0, measures |-> <<>>, measure |-> [width |-> "zero", family |-> <<>>],
     used |-> <<>>, renders |-> <<>>, advances |-> <<>>, drawnOn |-> <<>>,
     face |-> <<"none">>]

FontIdle ==
    /\ mfonts = <<>>
    /\ rfonts = <<>>
    /\ req = <<>>
    /\ cur = NoRender
    /\ calls = <<>>
    /\ epoch = 0

RaceIdle == mu = <<>> /\ renderer = 0 /\ thr = <<>>

DashIdle ==
    stroke = <<>> /\ dpc = "idle" /\ dk = <<>> /\ runs = <<>> /\ stalls = 0

RenderIdle ==
    defs = << >> /\ rstack = << >> /\ clipMask = << >> /\ last = << >> /\ nelems = 0

PixIdle == px = << >>

CallIdle == res = << >>

OrderIdle == ord = << >>

\* ------------------------------------------------------------------------
\* Bounds
\* ------------------------------------------------------------------------
MaxJunk == 3
MaxCmds == 3

\* Fixed-point denominator: two decimal fraction digits.
Denom == 10 * 10

\* ------------------------------------------------------------------------
\* Small helpers
\* ------------------------------------------------------------------------
Digits == <<"0", "1", "2", "3", "4", "5", "6", "7", "8", "9">>
DigitChars == {Digits[i] : i \in 1..10}
DigitVal(c) == (CHOOSE i \in 1..10 : Digits[i] = c) - 1

UpperChars == {"A","B","C","D","E","F","G","H","I","J","K","L","M",
               "N","O","P","Q","R","S","T","U","V","W","X","Y","Z"}
LowerChars == {"a","b","c","d","e","f","g","h","i","j","k","l","m",
               "n","o","p","q","r","s","t","u","v","w","x","y","z"}

RECURSIVE Pow10(_)
Pow10(n) == IF n <= 0 THEN 1 ELSE 10 * Pow10(n - 1)

RECURSIVE Flatten(_)
Flatten(ws) == IF ws = <<>> THEN <<>> ELSE Head(ws) \o Flatten(Tail(ws))

RECURSIVE SeqsUpTo(_, _)
SeqsUpTo(S, n) ==
    IF n = 0 THEN {<<>>}
    ELSE LET shorter == SeqsUpTo(S, n - 1)
         IN  shorter \cup {Append(q, x) : q \in shorter, x \in S}

\* ------------------------------------------------------------------------
\* pathReader
\* ------------------------------------------------------------------------
done(s, pos) == pos > Len(s)

isWS(c) == c \in {" ", "\t", "\n", "\r", ","}

RECURSIVE skipWS(_, _)
skipWS(s, pos) ==
    IF pos <= Len(s) /\ isWS(s[pos]) THEN skipWS(s, pos + 1) ELSE pos

RECURSIVE skipDigits(_, _)
skipDigits(s, pos) ==
    IF pos <= Len(s) /\ s[pos] \in DigitChars THEN skipDigits(s, pos + 1) ELSE pos

\* The natural number written by the digits s[from .. to-1] (0 when empty).
RECURSIVE digitsValue(_, _, _)
digitsValue(s, from, to) ==
    IF to <= from THEN 0
    ELSE 10 * digitsValue(s, from, to - 1) + DigitVal(s[to - 1])

\* strconv.ParseFloat on a token the reader delimited: sign, integer digits
\* [i0, i1), fraction digits [f0, f1), exponent sign and digits [e0, e1).
\* The result is the value times Denom.
scaleBy10(mant, shift) ==
    IF shift >= 0 THEN mant * Pow10(shift) ELSE mant \div Pow10(0 - shift)

ParseFloat(s, neg, i0, i1, f0, f1, eneg, e0, e1) ==
    (IF neg THEN 0 - 1 ELSE 1)
    * scaleBy10(digitsValue(s, i0, i1) * Pow10(f1 - f0) + digitsValue(s, f0, f1),
                (IF eneg THEN 0 - digitsValue(s, e0, e1) ELSE digitsValue(s, e0, e1))
                - (f1 - f0) + 2)

readFail(start) == [ok |-> FALSE, pos |-> start, val |-> 0]

\* readFloat, stage by stage.  start: after the white space; p1: after the
\* sign; p2: after the integer digits; [f0, p3): the fraction digits;
\* [e0, p5): the exponent digits.
readExpDigits(s, start, p1, p2, f0, p3, e0, p5) ==
    \* ParseFloat rejects an exponent marker with no digit after it
    IF p5 = e0 THEN readFail(start)
    ELSE [ok |-> TRUE, pos |-> p5,
          val |-> ParseFloat(s, s[start] = "-", p1, p2, f0, p3,
                             s[e0 - 1] = "-", e0, p5)]

readExpSign(s, start, p1, p2, f0, p3, e0) ==
    readExpDigits(s, start, p1, p2, f0, p3, e0, skipDigits(s, e0))

readExponent(s, start, p1, p2, f0, p3) ==
    IF ~(p2 > p1 \/ p3 > f0) THEN readFail(start)
    ELSE IF p3 <= Len(s) /\ s[p3] \in {"e", "E"}
    THEN readExpSign(s, start, p1, p2, f0, p3,
                     IF p3 + 1 <= Len(s) /\ s[p3 + 1] \in {"-", "+"}
                     THEN p3 + 2 ELSE p3 + 1)
    ELSE [ok |-> TRUE, pos |-> p3,
          val |-> ParseFloat(s, s[start] = "-", p1, p2, f0, p3, FALSE, p3, p3)]

readFraction(s, start, p1, p2) ==
    IF p2 <= Len(s) /\ s[p2] = "."
    THEN readExponent(s, start, p1, p2, p2 + 1, skipDigits(s, p2 + 1))
    ELSE readExponent(s, start, p1, p2, p2, p2)

readSign(s, start, p1) == readFraction(s, start, p1, skipDigits(s, p1))

readAt(s, start) ==
    IF done(s, start) THEN readFail(start)
    ELSE readSign(s, start, IF s[start] \in {"-", "+"} THEN start + 1 ELSE start)

readFloat(s, pos) == readAt(s, skipWS(s, pos))

\* isNextFloat skips white space first (it moves the reader), then looks
\* at one byte.
nextIsFloatAt(s, p) ==
    ~done(s, p) /\ (s[p] \in {"-", "+", "."} \/ s[p] \in DigitChars)

isNextFloat(s, pos) == nextIsFloatAt(s, skipWS(s, pos))

isPathCmd(c) == c \in UpperChars \/ c \in LowerChars

\* n consecutive readFloat calls, as the scanners issue them: every call is
\* made, whether or not an earlier one failed.
RECURSIVE readFloats(_, _, _)
joinReads(r, rest) ==
    [ok |-> r.ok /\ rest.ok, pos |-> rest.pos, vals |-> <<r.val>> \o rest.vals]

afterRead(s, r, n) == joinReads(r, readFloats(s, r.pos, n))

readFloats(s, pos, n) ==
    IF n = 0 THEN [ok |-> TRUE, pos |-> pos, vals |-> <<>>]
    ELSE afterRead(s, readFloat(s, pos), n - 1)

\* ------------------------------------------------------------------------
\* Viewport transform
\* ------------------------------------------------------------------------
toPixel(v, x, y) == <<x * v.scaleX + v.offsetX, y * v.scaleY + v.offsetY>>

Viewports ==
    { [scaleX |-> 1, scaleY |-> 1, offsetX |-> 0, offsetY |-> 0],
      [scaleX |-> 2, scaleY |-> 3, offsetX |-> 0 - Denom, offsetY |-> 0] }

\* ------------------------------------------------------------------------
\* Scanner state (the locals of buildPath / buildStrokeRasterizer /
\* buildDashStrokeFromPath).  pc: "loop" at the head of the outer loop,
\* "skip" inside the stroke scanners' number-skipping loop, "done" after
\* the outer loop.
\* ------------------------------------------------------------------------
scanStart ==
    [pc |-> "loop", pos |-> 1, lastCmd |-> "",
     curX |-> 0, curY |-> 0, startX |-> 0, startY |-> 0,
     lastCP |-> <<0, 0>>, out |-> <<>>]

\* An item handed to the rasterizer: MoveTo/LineTo/CubeTo/QuadTo/ClosePath
\* ("M","L","C","Q","Z") with its pixel coordinates, tagged with the
\* command letter whose case emitted it.
Op(name, cmd, pts) == [op |-> name, cmd |-> cmd, pts |-> pts]

\* A variant of arcToBezier without the two guards.
arcToBezierUnguarded(v, cmd, x1, y1, rx, ry, phi, largeArc, sweep, x2, y2) ==
    << Op("Arc", cmd, toPixel(v, x2, y2)) >>

\* arcToBezier: the two degenerate guards; the cubic chain of a proper arc
\* is kept as one "Arc" item ending at the requested endpoint.
arcToBezier(v, cmd, x1, y1, rx, ry, phi, largeArc, sweep, x2, y2) ==
    IF rx = 0 \/ ry = 0 THEN << Op("L", cmd, toPixel(v, x2, y2)) >>
    ELSE IF x1 = x2 /\ y1 = y2 THEN << >>
    ELSE << Op("Arc", cmd, toPixel(v, x2, y2)) >>

nArgs(cmd) ==
    CASE cmd \in {"L", "l", "T", "t"} -> 2
      [] cmd \in {"H", "h", "V", "v"} -> 1
      [] cmd \in {"C", "c"} -> 6
      [] cmd \in {"S", "s", "Q", "q"} -> 4
      [] cmd \in {"A", "a"} -> 7
      [] OTHER -> 0

RepeatCmds == {"L", "l", "H", "h", "V", "v", "C", "c", "S", "s",
               "Q", "q", "T", "t", "A", "a"}

\* The state after one coordinate group: new current point, new last
\* control point, items appended.
emit(s, x, y, cp, ops) ==
    [s EXCEPT !.curX = x, !.curY = y, !.lastCP = cp, !.out = s.out \o ops]

lineTo(v, s, cmd, x, y) ==
    emit(s, x, y, s.lastCP, << Op("L", cmd, toPixel(v, x, y)) >>)

cubeTo(v, s, cmd, x1, y1, x2, y2, x, y) ==
    emit(s, x, y, <<x2, y2>>,
         << Op("C", cmd, toPixel(v, x1, y1) \o toPixel(v, x2, y2)
                         \o toPixel(v, x, y)) >>)

quadTo(v, s, cmd, x1, y1, x, y) ==
    emit(s, x, y, <<x1, y1>>,
         << Op("Q", cmd, toPixel(v, x1, y1) \o toPixel(v, x, y)) >>)

arcTo(v, s, cmd, a, xe, ye) ==
    emit(s, xe, ye, s.lastCP,
         arcToBezier(v, cmd, s.curX, s.curY, a[1], a[2], a[3],
                     a[4] # 0, a[5] # 0, xe, ye))

\* The reflected control point of S/s/T/t.
reflectX(s) == 2 * s.curX - s.lastCP[1]
reflectY(s) == 2 * s.curY - s.lastCP[2]

\* One coordinate group of a repeatable command of buildPath: the body of
\* its `for pr.isNextFloat()` loop after all reads succeeded.
fillGroup(v, s, cmd, a) ==
    CASE cmd = "L" -> lineTo(v, s, cmd, a[1], a[2])
      [] cmd = "l" -> lineTo(v, s, cmd, s.curX + a[1], s.curY + a[2])
      [] cmd = "H" -> lineTo(v, s, cmd, a[1], s.curY)
      [] cmd = "h" -> lineTo(v, s, cmd, s.curX + a[1], s.curY)
      [] cmd = "V" -> lineTo(v, s, cmd, s.curX, a[1])
      [] cmd = "v" -> lineTo(v, s, cmd, s.curX, s.curY + a[1])
      [] cmd = "C" -> cubeTo(v, s, cmd, a[1], a[2], a[3], a[4], a[5], a[6])
      [] cmd = "c" -> cubeTo(v, s, cmd, s.curX + a[1], s.curY + a[2],
                             s.curX + a[3], s.curY + a[4],
                             s.curX + a[5], s.curY + a[6])
      [] cmd = "S" -> cubeTo(v, s, cmd, reflectX(s), reflectY(s),
                             a[1], a[2], a[3], a[4])
      [] cmd = "s" -> cubeTo(v, s, cmd, reflectX(s), reflectY(s),
                             s.curX + a[1], s.curY + a[2],
                             s.curX + a[3], s.curY + a[4])
      [] cmd = "Q" -> quadTo(v, s, cmd, a[1], a[2], a[3], a[4])
      [] cmd = "q" -> quadTo(v, s, cmd, s.curX + a[1], s.curY + a[2],
                             s.curX + a[3], s.curY + a[4])
      [] cmd = "T" -> quadTo(v, s, cmd, reflectX(s), reflectY(s), a[1], a[2])
      [] cmd = "t" -> quadTo(v, s, cmd, reflectX(s), reflectY(s),
                             s.curX + a[1], s.curY + a[2])
      [] cmd = "A" -> arcTo(v, s, cmd, a, a[6], a[7])
      [] cmd = "a" -> arcTo(v, s, cmd, a, s.curX + a[6], s.curY + a[7])

\* The `for pr.isNextFloat() { ...; if !ok { break }; ... }` loop of a
\* repeatable command.  It ends: every round that does not break has read
\* at least one number.
RECURSIVE fillRepeat(_, _, _, _)
fillAfterRead(v, str, s, cmd, r) ==
    IF ~r.ok THEN [s EXCEPT !.pos = r.pos]
    ELSE fillRepeat(v, str, [fillGroup(v, s, cmd, r.vals) EXCEPT !.pos = r.pos], cmd)

fillRepeat(v, str, s, cmd) ==
    IF ~isNextFloat(str, s.pos)
    THEN [s EXCEPT !.pos = skipWS(str, s.pos)]
    ELSE fillAfterRead(v, str, s, cmd, readFloats(str, s.pos, nArgs(cmd)))

\* A variant of the case that leaves the remembered letter as it is.
fillMoveToAgain(v, s, cmd, x, y, pos) ==
    [s EXCEPT !.pos = pos, !.curX = x, !.curY = y, !.startX = x, !.startY = y,
              !.out = s.out \o << Op("M", cmd, toPixel(v, x, y)) >>]

\* case 'M', 'm' of buildPath, after its two reads.
fillMoveTo(v, s, cmd, x, y, pos) ==
    [s EXCEPT !.pos = pos, !.curX = x, !.curY = y, !.startX = x, !.startY = y,
              !.out = s.out \o << Op("M", cmd, toPixel(v, x, y)) >>,
              !.lastCmd = IF cmd = "M" THEN "L" ELSE "l"]

fillMove(v, s, cmd, r) ==
    IF ~r.ok THEN [s EXCEPT !.pos = r.pos]
    ELSE IF cmd = "m"
    THEN fillMoveTo(v, s, cmd, r.vals[1] + s.curX, r.vals[2] + s.curY, r.pos)
    ELSE fillMoveTo(v, s, cmd, r.vals[1], r.vals[2], r.pos)

\* The head of every scanner's outer loop: a command letter at the reader
\* is remembered and consumed; any other byte leaves the remembered letter.
takeCmd(str, s, p0) ==
    IF isPathCmd(str[p0]) THEN [s EXCEPT !.pos = p0 + 1, !.lastCmd = str[p0]]
    ELSE [s EXCEPT !.pos = p0]

\* A variant of the switch whose Z case leaves the current point alone.
fillSwitchNoReset(v, str, s) ==
    CASE s.lastCmd \in {"M", "m"} ->
             fillMove(v, s, s.lastCmd, readFloats(str, s.pos, 2))
      [] s.lastCmd \in RepeatCmds -> fillRepeat(v, str, s, s.lastCmd)
      [] s.lastCmd \in {"Z", "z"} ->
             [s EXCEPT !.out = s.out \o << Op("Z", s.lastCmd, <<>>) >>]
      [] OTHER -> s

\* The switch of buildPath.  It has no default case.
fillSwitch(v, str, s) ==
    CASE s.lastCmd \in {"M", "m"} ->
             fillMove(v, s, s.lastCmd, readFloats(str, s.pos, 2))
      [] s.lastCmd \in RepeatCmds -> fillRepeat(v, str, s, s.lastCmd)
      [] s.lastCmd \in {"Z", "z"} ->
             [s EXCEPT !.out = s.out \o << Op("Z", s.lastCmd, <<>>) >>,
                       !.curX = s.startX, !.curY = s.startY]
      [] OTHER -> s

fillAt(v, str, s, p0) ==
    IF done(str, p0) THEN [s EXCEPT !.pos = p0, !.pc = "done"]
    ELSE fillSwitch(v, str, takeCmd(str, s, p0))

\* One round of the outer loop of buildPath (the fill scanner).
buildPath(v, str, s) == fillAt(v, str, s, skipWS(str, s.pos))

\* The stroke scanners collect pixel-space segments.
pixelSeg(a, b) == [x1 |-> a[1], y1 |-> a[2], x2 |-> b[1], y2 |-> b[2]]
Seg(v, x1, y1, x2, y2) == pixelSeg(toPixel(v, x1, y1), toPixel(v, x2, y2))

strokeSegTo(v, s, x, y, pos) ==
    [s EXCEPT !.pos = pos, !.curX = x, !.curY = y,
              !.out = Append(s.out, Seg(v, s.curX, s.curY, x, y))]

strokeMoveTo(s, x, y, pos, next) ==
    [s EXCEPT !.pos = pos, !.curX = x, !.curY = y,
              !.startX = x, !.startY = y, !.lastCmd = next]

\* case 'M' / 'm' (two reads, then `goto nextCmd` on failure)
strokeMove(s, cmd, r) ==
    IF ~r.ok THEN [s EXCEPT !.pos = r.pos]
    ELSE IF cmd = "M" THEN strokeMoveTo(s, r.vals[1], r.vals[2], r.pos, "L")
    ELSE strokeMoveTo(s, s.curX + r.vals[1], s.curY + r.vals[2], r.pos, "l")

\* case 'L' / 'l'
strokeLine(v, s, cmd, r) ==
    IF ~r.ok THEN [s EXCEPT !.pos = r.pos]
    ELSE IF cmd = "L" THEN strokeSegTo(v, s, r.vals[1], r.vals[2], r.pos)
    ELSE strokeSegTo(v, s, s.curX + r.vals[1], s.curY + r.vals[2], r.pos)

\* case 'H' / 'h' / 'V' / 'v'
strokeAxis(v, s, cmd, r) ==
    IF ~r.ok THEN [s EXCEPT !.pos = r.pos]
    ELSE CASE cmd = "H" -> strokeSegTo(v, s, r.vals[1], s.curY, r.pos)
           [] cmd = "h" -> strokeSegTo(v, s, s.curX + r.vals[1], s.curY, r.pos)
           [] cmd = "V" -> strokeSegTo(v, s, s.curX, r.vals[1], r.pos)
           [] cmd = "v" -> strokeSegTo(v, s, s.curX, s.curY + r.vals[1], r.pos)

\* The switch of the two stroke scanners.  They differ in the commands
\* they know: buildDashStrokeFromPath has no H/h/V/v cases.  Every other
\* letter (and no letter at all) falls to the default case, which enters
\* the number-skipping loop (pc = "skip").
strokeSwitch(v, str, s, known) ==
    CASE s.lastCmd \notin known -> [s EXCEPT !.pc = "skip"]
      [] s.lastCmd \in known \cap {"M", "m"} ->
             strokeMove(s, s.lastCmd, readFloats(str, s.pos, 2))
      [] s.lastCmd \in known \cap {"L", "l"} ->
             strokeLine(v, s, s.lastCmd, readFloats(str, s.pos, 2))
      [] s.lastCmd \in known \cap {"H", "h", "V", "v"} ->
             strokeAxis(v, s, s.lastCmd, readFloats(str, s.pos, 1))
      [] s.lastCmd \in known \cap {"Z", "z"} ->
             [s EXCEPT !.curX = s.startX, !.curY = s.startY,
                       !.out = Append(s.out,
                                      Seg(v, s.curX, s.curY, s.startX, s.startY))]

strokeAt(v, str, s, known, p0) ==
    IF done(str, p0) THEN [s EXCEPT !.pos = p0, !.pc = "done"]
    ELSE strokeSwitch(v, str, takeCmd(str, s, p0), known)

StrokeKnown == {"M", "m", "L", "l", "H", "h", "V", "v", "Z", "z"}
DashKnown   == {"M", "m", "L", "l", "Z", "z"}

\* One round of the outer loop of the solid and of the dashed stroke scanner.
buildStrokeRasterizer(v, str, s) ==
    strokeAt(v, str, s, StrokeKnown, skipWS(str, s.pos))

buildDashStrokeFromPath(v, str, s) ==
    strokeAt(v, str, s, DashKnown, skipWS(str, s.pos))

\* One round of `for pr.isNextFloat() { pr.readFloat() }` (the default
\* case of the stroke scanners): the loop test, then the body.
skipNumbers(str, s) ==
    IF ~isNextFloat(str, s.pos)
    THEN [s EXCEPT !.pos = skipWS(str, s.pos), !.pc = "loop"]
    ELSE [s EXCEPT !.pos = readFloat(str, s.pos).pos]

\* ------------------------------------------------------------------------
\* Path inputs
\* ------------------------------------------------------------------------
\* Well-formed commands.
CmdWords ==
    { <<"M","0"," ","0"," ">>,
      <<"m","5"," ","5"," ">>,
      <<"L","2","0"," ","1","0"," ">>,
      <<"H","5"," ">>,
      <<"C","1","0"," ","0"," ","1","0"," ","1","0"," ","2","0"," ","1","0"," ">>,
      <<"c","5"," ","0"," ","5"," ","5"," ","1","0"," ","5"," ">>,
      <<"S","3","0"," ","2","0"," ","4","0"," ","1","0"," ">>,
      <<"s","5"," ","5"," ","1","0"," ","0"," ">>,
      <<"Q","1","0"," ","0"," ","2","0"," ","1","0"," ">>,
      <<"T","4","0"," ","1","0"," ">>,
      <<"t","5"," ","5"," ">>,
      <<"Z">> }

\* Fragments of damaged path data: an unknown letter, a stray symbol, a
\* sign and a decimal point with no digit, a bare number, an exponent
\* marker with no digit, next to two well-formed commands.
JunkWords ==
    { <<"M","1"," ","1"," ">>,
      <<"L","2"," ","1"," ">>,
      <<"Z">>,
      <<"X">>,
      <<"3"," ">>,
      <<"-">>,
      <<".">>,
      <<"#">> }

\* A moveto followed by two more coordinate pairs, "M 1 1 5 0 5 5" and
\* "m 1 1 5 0 5 5", alone and closed with Z.
MoveWord(letter) ==
    <<letter, "1", " ", "1", " ", "5", " ", "0", " ", "5", " ", "5", " ">>

MoveInputs ==
    { MoveWord(letter) \o tail : letter \in {"M", "m"}, tail \in {<< >>, <<"Z">>} }

\* A subpath closed and followed by a relative lineto: "M 1 1 L 5 0 Z l 1 2"
\* and the same with m and z.
CloseWord(move, close) ==
    <<move, "1", " ", "1", " ", "L", "5", " ", "0", " ", close,
      "l", "1", " ", "2", " ">>

CloseInputs ==
    { CloseWord(move, close) : move \in {"M", "m"}, close \in {"Z", "z"} }

\* An arc command with two argument groups after "M 1 1": the first with
\* radii rx, ry and endpoint (e, e), the second "0 0 0 0 0 7 7".
ArcWord(letter, rx, ry, e) ==
    <<"M", "1", " ", "1", " ",
      letter, rx, " ", ry, " ", "0", " ", "0", " ", "1", " ", e, " ", e, " ",
      "0", " ", "0", " ", "0", " ", "0", " ", "0", " ", "7", " ", "7", " ">>

ArcInputs ==
    { ArcWord(letter, rx, ry, e) :
          letter \in {"A", "a"}, rx \in {"0", "2"}, ry \in {"0", "2"},
          e \in {"0", "1", "5"} }

PathInputs ==
    {Flatten(ws) : ws \in SeqsUpTo(CmdWords, MaxCmds)}
    \cup {Flatten(ws) : ws \in SeqsUpTo(JunkWords, MaxJunk)}
    \cup MoveInputs
    \cup CloseInputs
    \cup ArcInputs

\* ------------------------------------------------------------------------
\* Path scanning as a state machine
\* ------------------------------------------------------------------------
\* The round the running scanner executes next.
Round(k, v, str, s) ==
    IF s.pc = "skip" THEN skipNumbers(str, s)
    ELSE CASE k = "fill"   -> buildPath(v, str, s)
           [] k = "stroke" -> buildStrokeRasterizer(v, str, s)
           [] k = "dash"   -> buildDashStrokeFromPath(v, str, s)

\* The scanners are deterministic and their control depends only on the
\* reader position, the remembered command letter and the loop they are
\* in: a round that leaves these three as they were is repeated forever.
sameControl(s, n) == n.pc = s.pc /\ n.pos = s.pos /\ n.lastCmd = s.lastCmd

Spins(k, v, str, s) == s.pc # "done" /\ sameControl(s, Round(k, v, str, s))

\* Rounds are counted up to a cap so that a scan that never ends stays
\* within a finite state space.
IterCap(str) == 3 * Len(str) + 3

PathInit ==
    /\ data \in PathInputs
    /\ scanner \in {"fill", "stroke", "dash"}
    /\ sc = scanStart
    /\ iters = 0
    /\ vp \in Viewports
    /\ FontIdle
    /\ RaceIdle
    /\ DashIdle
    /\ RenderIdle
    /\ PixIdle
    /\ CallIdle
    /\ OrderIdle

\* One round of the outer loop of buildPath.
FillRound ==
    /\ scanner = "fill"
    /\ sc.pc = "loop"
    /\ iters < IterCap(data)
    /\ sc' = buildPath(vp, data, sc)
    /\ iters' = iters + 1
    /\ UNCHANGED <<data, scanner, vp>>
    /\ UNCHANGED nonPathVars

\* One round of the outer loop of buildStrokeRasterizer.
StrokeRound ==
    /\ scanner = "stroke"
    /\ sc.pc = "loop"
    /\ iters < IterCap(data)
    /\ sc' = buildStrokeRasterizer(vp, data, sc)
    /\ iters' = iters + 1
    /\ UNCHANGED <<data, scanner, vp>>
    /\ UNCHANGED nonPathVars

\* One round of the outer loop of buildDashStrokeFromPath.
DashRound ==
    /\ scanner = "dash"
    /\ sc.pc = "loop"
    /\ iters < IterCap(data)
    /\ sc' = buildDashStrokeFromPath(vp, data, sc)
    /\ iters' = iters + 1
    /\ UNCHANGED <<data, scanner, vp>>
    /\ UNCHANGED nonPathVars

\* One round of the number-skipping loop of the stroke scanners' default case.
SkipRound ==
    /\ scanner \in {"stroke", "dash"}
    /\ sc.pc = "skip"
    /\ iters < IterCap(data)
    /\ sc' = skipNumbers(data, sc)
    /\ iters' = iters + 1
    /\ UNCHANGED <<data, scanner, vp>>
    /\ UNCHANGED nonPathVars

PathNext == FillRound \/ StrokeRound \/ DashRound \/ SkipRound

SpecPath == PathInit /\ [][PathNext]_vars

\* ------------------------------------------------------------------------
\* Font catalog: font.Manager and font.Renderer
\* ------------------------------------------------------------------------
\* Family names and keys are sequences of tokens (a word or a hyphen), so
\* that a key is the concatenation fmt.Sprintf("%s-%s") builds and a
\* prefix test is a test on that concatenation.
UpperLetters == "ABCDEFGHIJKLMNOPQRSTUVWXYZ"
LowerLetters == "abcdefghijklmnopqrstuvwxyz"

\* The lower-case letter of every upper-case letter.
lowerOf ==
    [c \in {SubSeq(UpperLetters, i, i) : i \in 1..Len(UpperLetters)} |->
        SubSeq(LowerLetters,
               CHOOSE i \in 1..Len(UpperLetters) : SubSeq(UpperLetters, i, i) = c,
               CHOOSE i \in 1..Len(UpperLetters) : SubSeq(UpperLetters, i, i) = c)]

\* strings.ToLower on one character (a string of length 1): an upper-case
\* letter of the alphabet becomes its lower-case letter, any other
\* character stays.
lowerChar(c) == IF c \in DOMAIN lowerOf THEN lowerOf[c] ELSE c

\* strings.ToLower on a token, character by character.
RECURSIVE Lower(_)
Lower(tok) ==
    IF tok = "" THEN ""
    ELSE lowerChar(SubSeq(tok, 1, 1)) \o Lower(SubSeq(tok, 2, Len(tok)))

ToLower(s) == [i \in 1..Len(s) |-> Lower(s[i])]

\* strings.Contains(s, sub) on a token, sub not empty.
Contains(s, sub) ==
    \E i \in 1..(Len(s) - Len(sub) + 1) : SubSeq(s, i, i + Len(sub) - 1) = sub

HasPrefix(s, prefix) ==
    Len(prefix) <= Len(s) /\ SubSeq(s, 1, Len(prefix)) = prefix

\* fmt.Sprintf("%s-%s", family, style)
fontKey(family, style) == family \o <<"-", style>>

\* normalizeStyle: a style string containing "bold" and/or "italic" (in
\* any case); anything else is Regular.
normalizeStyle(style) ==
    IF Contains(Lower(style), "bold") /\ Contains(Lower(style), "italic")
    THEN "BoldItalic"
    ELSE IF Contains(Lower(style), "bold") THEN "Bold"
    ELSE IF Contains(Lower(style), "italic") THEN "Italic"
    ELSE "Regular"

\* Renderer.LoadFont: a key already loaded is kept as it is; data that is
\* missing or does not parse is an error; otherwise the face is stored.
LoadFont(rf, family, style, fdata) ==
    IF fontKey(family, style) \in DOMAIN rf THEN [fonts |-> rf, err |-> FALSE]
    ELSE IF fdata \in {"", "bad"} THEN [fonts |-> rf, err |-> TRUE]
    ELSE [fonts |-> (fontKey(family, style)
                        :> [family |-> family, style |-> style, data |-> fdata])
                    @@ rf,
          err |-> FALSE]

\* Manager.RegisterFonts over its argument list.  The manager's own table
\* is written before the renderer is asked to load the font, and the call
\* returns at the first error.
RECURSIVE RegisterFonts(_, _, _)
registerLoaded(mf, loaded, rest) ==
    IF loaded.err THEN [mfonts |-> mf, rfonts |-> loaded.fonts, err |-> TRUE]
    ELSE RegisterFonts(mf, loaded.fonts, rest)

registerOne(mf, rf, font, style, rest) ==
    registerLoaded((<<font.family, style>> :> font.data) @@ mf,
                   LoadFont(rf, font.family, style, font.data), rest)

RegisterFonts(mf, rf, fonts) ==
    IF fonts = <<>> THEN [mfonts |-> mf, rfonts |-> rf, err |-> FALSE]
    ELSE IF Head(fonts).family = <<>>
    THEN [mfonts |-> mf, rfonts |-> rf, err |-> TRUE]
    ELSE registerOne(mf, rf, Head(fonts), normalizeStyle(Head(fonts).style),
                     Tail(fonts))

\* Renderer.FindFont: the faces the lookup can return (none: nil).  The
\* exact key, then the family's Regular face, then the first key the
\* iteration over the map meets that starts with the family name: Go
\* iterates a map in an unspecified order, so any such key can be that one.
FindFont(rf, family, style) ==
    IF fontKey(family, style) \in DOMAIN rf THEN {fontKey(family, style)}
    ELSE IF fontKey(family, "Regular") \in DOMAIN rf
    THEN {fontKey(family, "Regular")}
    ELSE {k \in DOMAIN rf : HasPrefix(ToLower(k), ToLower(family) \o <<"-">>)}

BasicFont == <<"basicfont">>

\* Renderer.RenderText: the possible outcomes.  A family with no font is
\* drawn with the built-in bitmap face, and that is not an error.
RenderText(rf, family, style) ==
    IF FindFont(rf, family, style) = {}
    THEN {[err |-> FALSE, face |-> BasicFont]}
    ELSE {[err |-> FALSE, face |-> k] : k \in FindFont(rf, family, style)}

\* A variant of MeasureText that measures with the built-in bitmap face
\* when the family has no font.
MeasureTextSilent(rf, family, style) ==
    IF FindFont(rf, family, style) = {}
    THEN {[err |-> FALSE, face |-> BasicFont]}
    ELSE {[err |-> FALSE, face |-> k] : k \in FindFont(rf, family, style)}

\* Renderer.MeasureText: a family with no font is an error.
MeasureText(rf, family, style) ==
    IF FindFont(rf, family, style) = {}
    THEN {[err |-> TRUE, face |-> BasicFont]}
    ELSE {[err |-> FALSE, face |-> k] : k \in FindFont(rf, family, style)}

\* ------------------------------------------------------------------------
\* Text drawing: RasterContext.DrawText
\* ------------------------------------------------------------------------
\* fontStyleStr
fontStyleStr(st) ==
    IF st.fontWeight \in {"bold", "700", "800", "900"}
    THEN (IF st.fontStyle \in {"italic", "oblique"} THEN "BoldItalic" ELSE "Bold")
    ELSE (IF st.fontStyle \in {"italic", "oblique"} THEN "Italic" ELSE "Regular")

\* fontFamilies: the style's family followed by the generic fallbacks.
fontFamilies(st) ==
    IF ToLower(st.fontFamily) \in {<<"sans", "-", "serif">>, <<"helvetica">>, <<"arial">>}
    THEN <<st.fontFamily, <<"Helvetica">>, <<"Arial">>, <<"Geneva">>, <<"FreeSans">> >>
    ELSE IF ToLower(st.fontFamily) \in {<<"serif">>, <<"times">>, <<"times new roman">>}
    THEN <<st.fontFamily, <<"Times">>, <<"Times New Roman">>, <<"FreeSerif">> >>
    ELSE IF ToLower(st.fontFamily) \in {<<"monospace">>, <<"courier">>, <<"courier new">>}
    THEN <<st.fontFamily, <<"Courier">>, <<"Courier New">>, <<"FreeMono">> >>
    ELSE <<st.fontFamily>>

\* One call of a Renderer method by the text driver, as the driver sees it:
\* the family asked for, the font table the Renderer held at the call, and
\* what the call returned.
callRecord(rf, family, o) ==
    [family |-> family, seen |-> rf, err |-> o.err, face |-> o.face]

\* measureTextPix after one MeasureText call of its loop over the
\* families: the loop returns the measured width at the first call that
\* reports no error; after the last family comes the estimate from the
\* number of characters.  pcDraw is where DrawText goes on.
measureStep(c, rf, families, o, pcDraw) ==
    IF ~o.err
    THEN [c EXCEPT !.measures = Append(@, callRecord(rf, families[c.k], o)),
                   !.measure = [width |-> "measured", family |-> families[c.k]],
                   !.pc = pcDraw, !.k = 1]
    ELSE IF c.k = Len(families)
    THEN [c EXCEPT !.measures = Append(@, callRecord(rf, families[c.k], o)),
                   !.measure = [width |-> "estimate", family |-> << >>],
                   !.pc = pcDraw, !.k = 1]
    ELSE [c EXCEPT !.measures = Append(@, callRecord(rf, families[c.k], o)),
                   !.k = c.k + 1]

\* The family of the k-th RenderText call of DrawText (and drawTextRaw):
\* the families of the list, then the empty family.
drawFamily(families, k) == IF k > Len(families) THEN << >> ELSE families[k]

\* DrawText after one RenderText call of its loop over the families: the
\* loop returns at the first call that reports no error; the call with the
\* empty family after the loop is the last one.
drawStep(c, rf, families, o) ==
    IF ~o.err \/ c.k > Len(families)
    THEN [c EXCEPT !.renders = Append(@, callRecord(rf, drawFamily(families, c.k), o)),
                   !.face = o.face, !.drawnOn = rf, !.pc = "return"]
    ELSE [c EXCEPT !.renders = Append(@, callRecord(rf, drawFamily(families, c.k), o)),
                   !.k = c.k + 1]

\* drawTextWithLetterSpacing after one FindFont call of its loop over the
\* families: the family used is the first one FindFont finds a font for,
\* the empty family when there is none.
findStep(c, families, found) ==
    IF found THEN [c EXCEPT !.used = families[c.k], !.pc = "letter"]
    ELSE IF c.k = Len(families) THEN [c EXCEPT !.used = << >>, !.pc = "letter"]
    ELSE [c EXCEPT !.k = c.k + 1]

\* drawTextWithLetterSpacing after the RenderText call for a character.
letterStep(c, rf, o) ==
    [c EXCEPT !.renders = Append(@, callRecord(rf, c.used, o)),
              !.face = o.face, !.drawnOn = rf, !.pc = "advance"]

\* drawTextWithLetterSpacing after the MeasureText call for the advance of
\* the character drawn, which was the last one of the text.
advanceStep(c, rf, o) ==
    [c EXCEPT !.advances = Append(@, callRecord(rf, c.used, o)), !.pc = "return"]

\* Where DrawText goes on after measureTextPix.
pcAfterMeasure(st) == IF st.letterSpacing # 0 THEN "find" ELSE "draw"

\* DrawText up to its first call of a Renderer method: nothing is measured
\* or drawn for an empty text or fill="none".
pcOfDrawText(st) == IF st.content = "" \/ st.fillNone THEN "return" ELSE "measure"

\* What a finished RenderPNG call leaves in the record of the calls.
finishedCall(c, ep) ==
    [scan |-> c.scan, epoch |-> c.epoch, epochEnd |-> ep, loaded |-> c.drawnOn,
     face |-> c.face, measures |-> c.measures, measure |-> c.measure,
     renders |-> c.renders, advances |-> c.advances]

\* ------------------------------------------------------------------------
\* The public API as a state machine: RenderPNG calls made one after the
\* other, and RegisterFonts and ClearFontCache calls of other goroutines,
\* which can run wherever the RenderPNG call does not hold the manager's
\* lock: after its system font scan, after it fetched the renderer, and
\* between any two calls of the Renderer's methods (FindFont, MeasureText
\* and RenderText take no lock).  Each such call reads the table as it is
\* at one moment; a registration that overlaps a call is a data race on
\* the map, which the goroutine model below is about.
\* ------------------------------------------------------------------------
MaxRegs == 2
MaxCalls == 2

\* Font sources a caller registers.
FontSources ==
    [family : {<<"Arial">>, <<"Helvetica">>},
     style : {"", "Bold", "italic"},
     data : {"ttf1"}]
    \cup [family : {<<"Arial">>}, style : {""}, data : {"ttf2", "bad"}]
    \cup {[family |-> <<>>, style |-> "", data |-> "ttf1"]}

\* The font files ScanSystemFonts finds on the machine.
SystemFonts ==
    << [family |-> <<"Helvetica">>, style |-> "Regular", data |-> "sys"] >>

\* Text elements of the document, as the style resolver hands them over.
TextStyles ==
    [fontFamily : {<<"sans", "-", "serif">>, <<"Arial">>},
     fontWeight : {"normal", "bold"},
     fontStyle : {"normal"},
     letterSpacing : {0, 1},
     fillNone : {FALSE},
     content : {"A"}]

FontInit ==
    /\ mfonts = <<>>
    /\ rfonts = <<>>
    /\ req \in TextStyles
    /\ cur = NoRender
    /\ calls = <<>>
    /\ epoch = 0
    /\ PathIdle
    /\ RaceIdle
    /\ DashIdle
    /\ RenderIdle
    /\ PixIdle
    /\ CallIdle
    /\ OrderIdle

\* The font table of the Renderer the call in progress fetched: the
\* manager's current Renderer, or the one ClearCache replaced meanwhile.
heldFonts(c, rf) == IF c.live THEN rf ELSE c.fonts

\* svg2png.RegisterFonts(font)
RegisterFontsCall ==
    /\ epoch < MaxRegs
    /\ \E font \in FontSources :
           /\ mfonts' = RegisterFonts(mfonts, rfonts, <<font>>).mfonts
           /\ rfonts' = RegisterFonts(mfonts, rfonts, <<font>>).rfonts
    /\ epoch' = epoch + 1
    /\ UNCHANGED <<req, cur, calls>>
    /\ UNCHANGED nonFontVars

\* svg2png.ClearFontCache(): ClearCache gives the manager a new map and a
\* new Renderer; a RenderPNG call that fetched the old Renderer keeps it.
ClearFontCacheCall ==
    /\ epoch < MaxRegs
    /\ mfonts' = <<>>
    /\ rfonts' = <<>>
    /\ cur' = IF cur.pc \notin {"idle", "scanned"} /\ cur.live
              THEN [cur EXCEPT !.live = FALSE, !.fonts = rfonts]
              ELSE cur
    /\ epoch' = epoch + 1
    /\ UNCHANGED <<req, calls>>
    /\ UNCHANGED nonFontVars

\* svg2png.RenderPNG(svg, opts) on the document holding the text element
\* req, up to the end of the optional system font scan (which registers
\* what it finds, under the manager's lock).
RenderPNG ==
    /\ cur.pc = "idle"
    /\ Len(calls) < MaxCalls
    /\ \E scan \in BOOLEAN :
           /\ mfonts' = IF scan
                        THEN RegisterFonts(mfonts, rfonts, SystemFonts).mfonts
                        ELSE mfonts
           /\ rfonts' = IF scan
                        THEN RegisterFonts(mfonts, rfonts, SystemFonts).rfonts
                        ELSE rfonts
           /\ cur' = [NoRender EXCEPT !.pc = "scanned", !.scan = scan,
                                      !.epoch = epoch]
    /\ UNCHANGED <<req, calls, epoch>>
    /\ UNCHANGED nonFontVars

\* fontRenderer := globalFontManager.GetRenderer(), and the rendering up
\* to DrawText's first call of a method of that Renderer.
RenderGetRenderer ==
    /\ cur.pc = "scanned"
    /\ cur' = [cur EXCEPT !.pc = pcOfDrawText(req), !.k = 1]
    /\ UNCHANGED <<mfonts, rfonts, req, calls, epoch>>
    /\ UNCHANGED nonFontVars

\* One MeasureText call of measureTextPix's loop over the families.
RenderMeasureText ==
    /\ cur.pc = "measure"
    /\ \E o \in MeasureText(heldFonts(cur, rfonts), fontFamilies(req)[cur.k],
                             fontStyleStr(req)) :
           cur' = measureStep(cur, heldFonts(cur, rfonts), fontFamilies(req), o,
                              pcAfterMeasure(req))
    /\ UNCHANGED <<mfonts, rfonts, req, calls, epoch>>
    /\ UNCHANGED nonFontVars

\* One RenderText call of DrawText's loop over the families.
RenderDrawText ==
    /\ cur.pc = "draw"
    /\ \E o \in RenderText(heldFonts(cur, rfonts),
                            drawFamily(fontFamilies(req), cur.k), fontStyleStr(req)) :
           cur' = drawStep(cur, heldFonts(cur, rfonts), fontFamilies(req), o)
    /\ UNCHANGED <<mfonts, rfonts, req, calls, epoch>>
    /\ UNCHANGED nonFontVars

\* One FindFont call of drawTextWithLetterSpacing's loop over the families.
RenderFindFont ==
    /\ cur.pc = "find"
    /\ cur' = findStep(cur, fontFamilies(req),
                       FindFont(heldFonts(cur, rfonts), fontFamilies(req)[cur.k],
                                fontStyleStr(req)) # {})
    /\ UNCHANGED <<mfonts, rfonts, req, calls, epoch>>
    /\ UNCHANGED nonFontVars

\* The RenderText call of drawTextWithLetterSpacing for a character.
RenderLetter ==
    /\ cur.pc = "letter"
    /\ \E o \in RenderText(heldFonts(cur, rfonts), cur.used, fontStyleStr(req)) :
           cur' = letterStep(cur, heldFonts(cur, rfonts), o)
    /\ UNCHANGED <<mfonts, rfonts, req, calls, epoch>>
    /\ UNCHANGED nonFontVars

\* The MeasureText call of drawTextWithLetterSpacing for the advance of
\* the character.
RenderAdvance ==
    /\ cur.pc = "advance"
    /\ \E o \in MeasureText(heldFonts(cur, rfonts), cur.used, fontStyleStr(req)) :
           cur' = advanceStep(cur, heldFonts(cur, rfonts), o)
    /\ UNCHANGED <<mfonts, rfonts, req, calls, epoch>>
    /\ UNCHANGED nonFontVars

\* The return of RenderPNG.  The call is recorded with the face drawn and
\* the calls it made.
RenderPNGReturn ==
    /\ cur.pc = "return"
    /\ calls' = Append(calls, finishedCall(cur, epoch))
    /\ cur' = NoRender
    /\ UNCHANGED <<mfonts, rfonts, req, epoch>>
    /\ UNCHANGED nonFontVars

FontNext ==
    \/ RegisterFontsCall
    \/ ClearFontCacheCall
    \/ RenderPNG
    \/ RenderGetRenderer
    \/ RenderMeasureText
    \/ RenderDrawText
    \/ RenderFindFont
    \/ RenderLetter
    \/ RenderAdvance
    \/ RenderPNGReturn

SpecFont == FontInit /\ [][FontNext]_vars

\* ------------------------------------------------------------------------
\* Goroutines calling the API concurrently.  A goroutine's pc names the
\* block of code it is executing; the table accesses of a block last from
\* the step that enters it to the step that leaves it.
\* ------------------------------------------------------------------------
Goroutines == 1..3
MaxRenderers == 2

Free == 0

\* What a goroutine at pc writes and reads.  The font map of a Renderer is
\* named together with the Renderer it belongs to.
writesAt(g) ==
    CASE thr[g].pc = "reg_fonts" -> {<<"Manager.fonts">>}
      [] thr[g].pc = "reg_load" -> {<<"Renderer.fonts", renderer>>}
      [] thr[g].pc = "clr_fonts" -> {<<"Manager.fonts">>}
      [] thr[g].pc = "clr_renderer" -> {<<"Manager.renderer">>}
      [] OTHER -> {}

readsAt(g) ==
    CASE thr[g].pc = "reg_fonts" -> {<<"Manager.fonts">>}
      [] thr[g].pc = "reg_load" -> {<<"Manager.renderer">>, <<"Renderer.fonts", renderer>>}
      [] thr[g].pc = "list_fonts" -> {<<"Manager.fonts">>}
      [] thr[g].pc = "get_renderer" -> {<<"Manager.renderer">>}
      [] thr[g].pc = "find_font" -> {<<"Renderer.fonts", thr[g].r>>}
      [] OTHER -> {}

RaceInit ==
    /\ mu = [writer |-> Free, readers |-> {}]
    /\ renderer = 1
    /\ thr = [g \in Goroutines |-> [pc |-> "idle", scan |-> FALSE, r |-> 0]]
    /\ PathIdle
    /\ FontIdle
    /\ DashIdle
    /\ RenderIdle
    /\ PixIdle
    /\ CallIdle
    /\ OrderIdle

goto(g, pc) == thr' = [thr EXCEPT ![g].pc = pc]

\* A goroutine calls svg2png.RegisterFonts and waits for m.mu.Lock().
CallRegisterFonts ==
    \E g \in Goroutines :
        /\ thr[g].pc = "idle"
        /\ thr' = [thr EXCEPT ![g] = [pc |-> "reg_lock", scan |-> FALSE, r |-> 0]]
        /\ UNCHANGED <<mu, renderer>>
        /\ UNCHANGED nonRaceVars

\* m.mu.Lock() of RegisterFonts is granted; the loop body starts on the
\* manager's table.
RegisterLock ==
    \E g \in Goroutines :
        /\ thr[g].pc = "reg_lock"
        /\ mu.writer = Free /\ mu.readers = {}
        /\ mu' = [mu EXCEPT !.writer = g]
        /\ goto(g, "reg_fonts")
        /\ UNCHANGED renderer
        /\ UNCHANGED nonRaceVars

\* RegisterFonts goes on to m.renderer.LoadFont(fontInfo).
RegisterLoadFont ==
    \E g \in Goroutines :
        /\ thr[g].pc = "reg_fonts"
        /\ goto(g, "reg_load")
        /\ UNCHANGED <<mu, renderer>>
        /\ UNCHANGED nonRaceVars

\* The deferred m.mu.Unlock() of RegisterFonts.  Inside ScanSystemFonts the
\* goroutine goes on to ListFonts.
RegisterUnlock ==
    \E g \in Goroutines :
        /\ thr[g].pc = "reg_load"
        /\ mu' = [mu EXCEPT !.writer = Free]
        /\ goto(g, IF thr[g].scan THEN "list_rlock" ELSE "idle")
        /\ UNCHANGED renderer
        /\ UNCHANGED nonRaceVars

\* A goroutine calls svg2png.ClearFontCache and waits for m.mu.Lock().
CallClearFontCache ==
    \E g \in Goroutines :
        /\ thr[g].pc = "idle"
        /\ renderer < MaxRenderers
        /\ thr' = [thr EXCEPT ![g] = [pc |-> "clr_lock", scan |-> FALSE, r |-> 0]]
        /\ UNCHANGED <<mu, renderer>>
        /\ UNCHANGED nonRaceVars

\* m.mu.Lock() of ClearCache is granted; m.fonts is replaced.
ClearLock ==
    \E g \in Goroutines :
        /\ thr[g].pc = "clr_lock"
        /\ mu.writer = Free /\ mu.readers = {}
        /\ mu' = [mu EXCEPT !.writer = g]
        /\ goto(g, "clr_fonts")
        /\ UNCHANGED renderer
        /\ UNCHANGED nonRaceVars

\* ClearCache goes on to m.renderer = NewRenderer().
ClearRenderer ==
    \E g \in Goroutines :
        /\ thr[g].pc = "clr_fonts"
        /\ goto(g, "clr_renderer")
        /\ UNCHANGED <<mu, renderer>>
        /\ UNCHANGED nonRaceVars

\* The pointer now refers to the new Renderer; the deferred m.mu.Unlock().
ClearUnlock ==
    \E g \in Goroutines :
        /\ thr[g].pc = "clr_renderer"
        /\ renderer' = renderer + 1
        /\ mu' = [mu EXCEPT !.writer = Free]
        /\ goto(g, "idle")
        /\ UNCHANGED nonRaceVars

\* A goroutine calls svg2png.RenderPNG.  With opts.SystemFontScan it first
\* runs ScanSystemFonts, which registers a font file it found (through
\* Manager.RegisterFonts) and then calls ListFonts; without, it goes
\* straight to GetRenderer.
CallRenderPNG ==
    \E g \in Goroutines, scan \in BOOLEAN :
        /\ thr[g].pc = "idle"
        /\ thr' = [thr EXCEPT ![g] = [pc |-> IF scan THEN "reg_lock" ELSE "get_renderer",
                                      scan |-> scan, r |-> 0]]
        /\ UNCHANGED <<mu, renderer>>
        /\ UNCHANGED nonRaceVars

\* m.mu.RLock() of ListFonts is granted; the manager's table is read.
ListFontsRLock ==
    \E g \in Goroutines :
        /\ thr[g].pc = "list_rlock"
        /\ mu.writer = Free
        /\ mu' = [mu EXCEPT !.readers = mu.readers \cup {g}]
        /\ goto(g, "list_fonts")
        /\ UNCHANGED renderer
        /\ UNCHANGED nonRaceVars

\* The deferred m.mu.RUnlock() of ListFonts; RenderPNG goes on to
\* globalFontManager.GetRenderer(), which takes no lock.
ListFontsRUnlock ==
    \E g \in Goroutines :
        /\ thr[g].pc = "list_fonts"
        /\ mu' = [mu EXCEPT !.readers = mu.readers \ {g}]
        /\ goto(g, "get_renderer")
        /\ UNCHANGED renderer
        /\ UNCHANGED nonRaceVars

\* GetRenderer returns m.renderer; the render starts and, drawing text,
\* looks fonts up in that Renderer (FindFont, which takes no lock either).
GetRenderer ==
    \E g \in Goroutines :
        /\ thr[g].pc = "get_renderer"
        /\ thr' = [thr EXCEPT ![g].pc = "find_font", ![g].r = renderer]
        /\ UNCHANGED <<mu, renderer>>
        /\ UNCHANGED nonRaceVars

\* The render is over; RenderPNG returns.
RenderReturn ==
    \E g \in Goroutines :
        /\ thr[g].pc = "find_font"
        /\ goto(g, "idle")
        /\ UNCHANGED <<mu, renderer>>
        /\ UNCHANGED nonRaceVars

RaceNext ==
    \/ CallRegisterFonts \/ RegisterLock \/ RegisterLoadFont \/ RegisterUnlock
    \/ CallClearFontCache \/ ClearLock \/ ClearRenderer \/ ClearUnlock
    \/ CallRenderPNG \/ ListFontsRLock \/ ListFontsRUnlock
    \/ GetRenderer \/ RenderReturn

SpecRace == RaceInit /\ [][RaceNext]_vars

\* ------------------------------------------------------------------------
\* Claims about concurrent use of the font catalog
\* ------------------------------------------------------------------------
\* C5: in every interleaving of RenderPNG, RegisterFonts, ScanSystemFonts
\* and ClearFontCache calls, no goroutine reads one of the font tables (the
\* manager's map, a Renderer's font map, the manager's Renderer pointer)
\* while another goroutine writes it.
C5_NoReadOverlapsWrite ==
    \A g, h \in Goroutines :
        g # h => writesAt(g) \cap (readsAt(h) \cup writesAt(h)) = {}

\* ------------------------------------------------------------------------
\* Stroke/dash engine.  Lengths are measured along the stroked outline, in
\* whole pixels: a segment is its length, a quad is the stretch [from, to]
\* of a segment.
\* ------------------------------------------------------------------------
MaxSegs == 2
MaxSegLen == 3
MaxDashLen == 2
MaxDashEntries == 2
MaxRadius == 2

\* scaleDasharray: the dash array in pixels.
scaleDasharray(dasharray, scale) ==
    [i \in 1..Len(dasharray) |-> dasharray[i] * scale]

\* addThickLine adds a quad unless the line has no length.
addThickLine(seg, from, to) ==
    IF to = from THEN << >> ELSE << [seg |-> seg, from |-> from, to |-> to] >>

\* The solid stroke of the drivers: one addThickLine per segment.
RECURSIVE solidStroke(_, _)
solidStroke(segs, i) ==
    IF i > Len(segs) THEN << >>
    ELSE addThickLine(i, 0, segs[i]) \o solidStroke(segs, i + 1)

\* addEllipse and addEllipseCCW add a closed outline of four curves around
\* the centre, whatever the radii.
addEllipse(rx, ry) == << [ellipse |-> "cw", rx |-> rx, ry |-> ry] >>

addEllipseCCW(rx, ry) == << [ellipse |-> "ccw", rx |-> rx, ry |-> ry] >>

\* The solid stroke of DrawEllipse: the ellipse grown by half the stroke
\* width, and the ellipse shrunk by it cut out when both radii are larger
\* than half the stroke width.
ellipseRing(rx, ry, half) ==
    addEllipse(rx + half, ry + half)
    \o (IF rx > half /\ ry > half THEN addEllipseCCW(rx - half, ry - half)
        ELSE << >>)

\* What the stroke branch of a driver hands to the rasterizer when the
\* style has no dash array.
solidStrokeOf(s) ==
    IF s.kind = "ellipse" THEN ellipseRing(s.rx, s.ry, s.half)
    ELSE solidStroke(s.segs, 1)

\* dashPx[dashIdx % len(dashPx)], positions being 1-based here.
dashEntry(d) == d.dashPx[(d.dashIdx % Len(d.dashPx)) + 1]

Min(a, b) == IF a < b THEN a ELSE b

\* One round of the `for pos < totalLen` loop of dashThickLine.
dashLineTo(d, endPos) ==
    [d EXCEPT !.pos = endPos, !.dashIdx = d.dashIdx + 1, !.drawing = ~d.drawing]

\* A variant of the round that does not cut the run at the end of the line.
dashThickLineUncut(d, totalLen) == dashLineTo(d, d.pos + dashEntry(d))

dashThickLine(d, totalLen) == dashLineTo(d, Min(d.pos + dashEntry(d), totalLen))

\* A variant of the round that forgets how much of the current dash entry
\* is used up when the segment ends inside the entry.
dashAdvanceNoCarry(d, advance) ==
    IF d.dashPos + advance >= dashEntry(d)
    THEN [d EXCEPT !.pos = d.pos + advance, !.dashPos = 0,
                   !.dashIdx = d.dashIdx + 1, !.drawing = ~d.drawing]
    ELSE [d EXCEPT !.pos = d.pos + advance]

\* One round of the `for pos < segLen` loop of strokeSegmentsWithDash (and
\* of the same loop at the end of buildDashStrokeFromPath).
dashAdvance(d, advance) ==
    IF d.dashPos + advance >= dashEntry(d)
    THEN [d EXCEPT !.pos = d.pos + advance, !.dashPos = 0,
                   !.dashIdx = d.dashIdx + 1, !.drawing = ~d.drawing]
    ELSE [d EXCEPT !.pos = d.pos + advance, !.dashPos = d.dashPos + advance]

strokeSegmentsWithDash(d, segLen) ==
    dashAdvance(d, Min(dashEntry(d) - d.dashPos, segLen - d.pos))

\* The stroke operations: which driver, the lengths of the outline's
\* segments (one for a line), the computed style's dash array and the
\* scale that turns it into pixels.  An ellipse has its radii and half its
\* stroke width in pixels as well; the segments are those between the
\* points strokeEllipseWithDash samples on it, which all coincide exactly
\* when both radii are 0.
DashArrays ==
    UNION {[1..n -> 0..MaxDashLen] : n \in 0..MaxDashEntries}

\* A straight line of 100 pixels with stroke-dasharray="10,10".
HundredPixelLine ==
    [kind |-> "line", segs |-> <<100>>, dasharray |-> <<10, 10>>, scale |-> 1]

Strokes ==
    [kind : {"line"}, segs : [1..1 -> 0..MaxSegLen],
     dasharray : DashArrays, scale : {1, 2}]
    \cup {HundredPixelLine}
    \cup [kind : {"polyline", "path"},
          segs : UNION {[1..n -> 0..MaxSegLen] : n \in 1..MaxSegs},
          dasharray : DashArrays, scale : {1}]
    \cup {s \in [kind : {"ellipse"}, rx : 0..MaxRadius, ry : 0..MaxRadius,
                  half : {1},
                  segs : UNION {[1..n -> 0..MaxSegLen] : n \in 1..MaxSegs},
                  dasharray : DashArrays, scale : {1}] :
              (s.rx = 0 /\ s.ry = 0) <=> (\A i \in 1..Len(s.segs) : s.segs[i] = 0)}

DashInit ==
    /\ stroke \in Strokes
    /\ dpc = "start"
    /\ dk = << >>
    /\ runs = << >>
    /\ stalls = 0
    /\ PathIdle
    /\ FontIdle
    /\ RaceIdle
    /\ RenderIdle
    /\ PixIdle
    /\ CallIdle
    /\ OrderIdle

\* The stroke branch of DrawLine / DrawPolyline / DrawEllipse / DrawPath
\* with no dash array: the solid stroke, one thick line per segment for a
\* line, a polyline and a path, a ring for an ellipse.
StrokeSolid ==
    /\ dpc = "start"
    /\ Len(stroke.dasharray) = 0
    /\ runs' = solidStrokeOf(stroke)
    /\ dpc' = "done"
    /\ UNCHANGED <<stroke, dk, stalls>>
    /\ UNCHANGED nonDashVars

\* The same branch with len(st.StrokeDasharray) > 0: the dash loop is
\* entered (dashThickLine for a line, which returns at once when the line
\* has no length; the segment loop for the other shapes).
StrokeDashed ==
    /\ dpc = "start"
    /\ Len(stroke.dasharray) > 0
    /\ dk' = [seg |-> 1, pos |-> 0, dashIdx |-> 0, dashPos |-> 0, drawing |-> TRUE,
              dashPx |-> scaleDasharray(stroke.dasharray, stroke.scale)]
    /\ dpc' = IF stroke.kind = "line"
              THEN (IF stroke.segs[1] = 0 THEN "done" ELSE "line")
              ELSE "segs"
    /\ UNCHANGED <<stroke, runs, stalls>>
    /\ UNCHANGED nonDashVars

\* dashThickLine: one round of its loop, or the end of the loop.
DashLineRound ==
    /\ dpc = "line"
    /\ stalls <= Len(dk.dashPx)
    /\ IF dk.pos < stroke.segs[1]
       THEN /\ dk' = dashThickLine(dk, stroke.segs[1])
            /\ runs' = IF dk.drawing
                       THEN runs \o addThickLine(1, dk.pos, dk'.pos)
                       ELSE runs
            /\ stalls' = IF dk'.pos = dk.pos THEN stalls + 1 ELSE 0
            /\ dpc' = dpc
       ELSE /\ dpc' = "done"
            /\ UNCHANGED <<dk, runs, stalls>>
    /\ UNCHANGED stroke
    /\ UNCHANGED nonDashVars

\* The outer loop of strokeSegmentsWithDash: the next segment (a segment of
\* no length is passed over), or the end.
DashNextSegment ==
    /\ dpc = "segs"
    /\ IF dk.seg > Len(stroke.segs) THEN TRUE
       ELSE dk.pos >= stroke.segs[dk.seg]
    /\ IF dk.seg > Len(stroke.segs)
       THEN dpc' = "done" /\ dk' = dk
       ELSE dpc' = dpc /\ dk' = [dk EXCEPT !.seg = dk.seg + 1, !.pos = 0]
    /\ UNCHANGED <<stroke, runs, stalls>>
    /\ UNCHANGED nonDashVars

\* One round of the inner loop of strokeSegmentsWithDash.
DashSegmentRound ==
    /\ dpc = "segs"
    /\ stalls <= Len(dk.dashPx)
    /\ dk.seg <= Len(stroke.segs)
    /\ dk.pos < stroke.segs[dk.seg]
    /\ dk' = strokeSegmentsWithDash(dk, stroke.segs[dk.seg])
    /\ runs' = IF dk.drawing
               THEN runs \o addThickLine(dk.seg, dk.pos, dk'.pos)
               ELSE runs
    /\ stalls' = IF dk'.pos = dk.pos THEN stalls + 1 ELSE 0
    /\ UNCHANGED <<stroke, dpc>>
    /\ UNCHANGED nonDashVars

DashNext ==
    \/ StrokeSolid \/ StrokeDashed
    \/ DashLineRound \/ DashNextSegment \/ DashSegmentRound

SpecDash == DashInit /\ [][DashNext]_vars

\* ------------------------------------------------------------------------
\* Claims about the stroke/dash engine
\* ------------------------------------------------------------------------
AllZero(dasharray) ==
    Len(dasharray) > 0 /\ \A i \in 1..Len(dasharray) : dasharray[i] = 0

\* C4: a dash array holding only zeros is treated as no dash: the dash
\* expansion terminates (the dash loop never goes through the whole
\* pattern without advancing along the outline, which it would then do
\* forever) and the stroke that results is the solid stroke, for lines,
\* polylines/polygons, ellipses and paths.
C4_ZeroDashIsSolid ==
    AllZero(stroke.dasharray) =>
        /\ stalls <= Len(stroke.dasharray)
        /\ dpc = "done" => runs = solidStrokeOf(stroke)

Positive(dasharray) ==
    Len(dasharray) > 0 /\ \A i \in 1..Len(dasharray) : dasharray[i] > 0

\* Where run number j (from 0; the even ones are on) of a pattern starts:
\* the sum of the first j entries of the pattern taken cyclically.
RECURSIVE runStart(_, _)
runStart(pattern, j) ==
    IF j = 0 THEN 0
    ELSE runStart(pattern, j - 1) + pattern[((j - 1) % Len(pattern)) + 1]

\* The on-runs that a pattern lays on a line of the given length, from
\* on-run k onwards.
RECURSIVE onRunsFrom(_, _, _)
onRunsFrom(pattern, length, k) ==
    IF runStart(pattern, 2 * k) >= length THEN << >>
    ELSE << [seg |-> 1, from |-> runStart(pattern, 2 * k),
             to |-> Min(runStart(pattern, 2 * k + 1), length)] >>
         \o onRunsFrom(pattern, length, k + 1)

\* C16: a straight 100px line dashed [10,10] yields exactly 5 on-runs of
\* 10px each; for a line and a pattern of positive entries the on-runs
\* are those of the pattern laid cyclically along the line, starting with
\* on, each run starting where the one before ended, and only the final
\* run cut at the line end.
C16_DashRunsFollowPattern ==
    (stroke.kind = "line" /\ Positive(stroke.dasharray) /\ dpc = "done") =>
        /\ runs = onRunsFrom(dk.dashPx, stroke.segs[1], 0)
        /\ dk.pos = stroke.segs[1]
        /\ stroke = HundredPixelLine =>
              /\ Len(runs) = 5
              /\ \A i \in 1..Len(runs) : runs[i].to - runs[i].from = 10

\* The 100px line dashed [10,10] has been stroked.
C16_Witness ==
    /\ stroke = HundredPixelLine
    /\ dpc = "done"
    /\ Len(runs) = 5
    /\ runs[5].to = 90

\* ------------------------------------------------------------------------
\* Computed styles, as the style resolver hands them to the drivers
\* ------------------------------------------------------------------------
Nil == <<"nil">>

\* StyleResolver.applyProperty for fill / stroke: "none" sets the none
\* flag, a colour clears it ("transparent" is a colour of alpha 0).
applyPaint(value) ==
    CASE value = "none" -> [none |-> TRUE, alpha |-> 0, url |-> ""]
      [] value = "transparent" -> [none |-> FALSE, alpha |-> 0, url |-> ""]
      [] OTHER -> [none |-> FALSE, alpha |-> 255, url |-> ""]

\* A fill that references a definition: the reference is kept beside the
\* default colour.
applyPaintURL(id) == [none |-> FALSE, alpha |-> 255, url |-> id]

FillPaints ==
    {applyPaint(v) : v \in {"none", "transparent", "black"}}
    \cup {applyPaintURL(id) : id \in {"g1", "r1", "p1", "missing"}}

StrokePaints == {applyPaint(v) : v \in {"none", "transparent", "black"}}

\* Stroke settings: each paint at width 1 without dashes, and the visible
\* paint also at width 0 and with a dash array.
StrokeSettings ==
    {[stroke |-> p, strokeWidth |-> 1, dasharray |-> << >>] : p \in StrokePaints}
    \cup {[stroke |-> applyPaint("black"), strokeWidth |-> 0, dasharray |-> << >>],
          [stroke |-> applyPaint("black"), strokeWidth |-> 1, dasharray |-> <<1, 1>>],
          [stroke |-> applyPaint("transparent"), strokeWidth |-> 1,
           dasharray |-> <<1, 1>>]}

\* The computed style of a shape.  The dash arrays here have no zero
\* entry (the dash loops are the subject of the stroke/dash engine above).
ComputedStyles ==
    {[fill |-> f, stroke |-> s.stroke, strokeWidth |-> s.strokeWidth,
      dasharray |-> s.dasharray] : f \in FillPaints, s \in StrokeSettings}

\* The definitions of a parsed document (parser.Defs), and a raster
\* context built without any.
DocDefs ==
    [isNil |-> FALSE, ClipPaths |-> {"c1", "c2"}, LinearGradients |-> {"g1"},
     RadialGradients |-> {"r1"}, Patterns |-> {"p1"}]

NilDefs ==
    [isNil |-> TRUE, ClipPaths |-> {}, LinearGradients |-> {},
     RadialGradients |-> {}, Patterns |-> {}]

\* ------------------------------------------------------------------------
\* Clip engine
\* ------------------------------------------------------------------------
\* A variant of PushClipPath that keeps a mask that is already active.
PushClipPathKeepOuter(d, mask, clipPathID) ==
    IF d.isNil THEN mask
    ELSE IF clipPathID \notin d.ClipPaths THEN mask
    ELSE IF mask # Nil THEN mask
    ELSE <<"mask", clipPathID>>

\* PushClipPath: the clip mask after the call.  Without definitions, or
\* with an id that names no clipPath, the call returns before touching the
\* mask; otherwise the mask built from the definition replaces it.
PushClipPath(d, mask, clipPathID) ==
    IF d.isNil THEN mask
    ELSE IF clipPathID \notin d.ClipPaths THEN mask
    ELSE <<"mask", clipPathID>>

\* A PopClipPath that leaves the mask in place.
PopClipPathKeep(mask) == mask

\* PopClipPath: rc.clipMask = nil
PopClipPath(mask) == Nil

\* ------------------------------------------------------------------------
\* Shape drivers: the steps a driver performs for a computed style, in
\* order.  A step is <<part, what>>.
\* ------------------------------------------------------------------------
\* drawURLFill
drawURLFill(d, fillURL) ==
    IF d.isNil THEN << >>
    ELSE IF fillURL \in d.LinearGradients THEN << <<"fill", "gradient">> >>
    ELSE IF fillURL \in d.RadialGradients THEN << <<"fill", "gradient">> >>
    ELSE IF fillURL \in d.Patterns THEN << <<"fill", "pattern">> >>
    ELSE << >>

\* The fill branch shared by DrawRect, DrawEllipse and DrawPath: the URL
\* reference is looked at first, then the none flag, then the alpha.
fillSteps(d, st) ==
    IF st.fill.url # ""
    THEN << <<"fill", "rasterize">>, <<"fill", "clip">> >> \o drawURLFill(d, st.fill.url)
    ELSE IF ~st.fill.none /\ st.fill.alpha > 0
    THEN << <<"fill", "rasterize">>, <<"fill", "composite">> >>
    ELSE << >>

strokeOn(st) == ~st.stroke.none /\ st.strokeWidth > 0 /\ st.stroke.alpha > 0

solidStrokeSteps == << <<"stroke", "rasterize">>, <<"stroke", "composite">> >>

dashStrokeSteps ==
    << <<"stroke", "dash">>, <<"stroke", "rasterize">>, <<"stroke", "composite">> >>

\* The stroke branch of the drivers that support dashes.
strokeSteps(st) ==
    IF ~strokeOn(st) THEN << >>
    ELSE IF Len(st.dasharray) > 0 THEN dashStrokeSteps
    ELSE solidStrokeSteps

\* DrawRect strokes solid whatever the dash array.
DrawRect(d, st) ==
    fillSteps(d, st) \o (IF strokeOn(st) THEN solidStrokeSteps ELSE << >>)

DrawEllipse(d, st) == fillSteps(d, st) \o strokeSteps(st)

\* DrawCircle draws the ellipse of equal radii.
DrawCircle(d, st) == DrawEllipse(d, st)

DrawLine(d, st) == strokeSteps(st)

\* DrawPolyline fills only a closed outline, and never through a URL
\* reference.
DrawPolyline(d, st, closed) ==
    (IF closed /\ ~st.fill.none /\ st.fill.alpha > 0
     THEN << <<"fill", "rasterize">>, <<"fill", "composite">> >>
     ELSE << >>)
    \o strokeSteps(st)

DrawPath(d, st) == fillSteps(d, st) \o strokeSteps(st)

\* DrawText as a driver: it returns early on a none fill and otherwise
\* measures the text and has the font renderer draw it in the fill colour.
drawTextSteps(st) ==
    IF st.fill.none THEN << >>
    ELSE << <<"fill", "measure">>, <<"fill", "rasterize">>, <<"fill", "composite">> >>

ShapeKinds ==
    {"rect", "circle", "ellipse", "line", "polyline", "polygon", "path", "text"}

\* renderElement's dispatch to the driver of a shape element.
drawShape(d, kind, st) ==
    CASE kind = "rect" -> DrawRect(d, st)
      [] kind = "circle" -> DrawCircle(d, st)
      [] kind = "ellipse" -> DrawEllipse(d, st)
      [] kind = "line" -> DrawLine(d, st)
      [] kind = "polyline" -> DrawPolyline(d, st, FALSE)
      [] kind = "polygon" -> DrawPolyline(d, st, TRUE)
      [] kind = "path" -> DrawPath(d, st)
      [] kind = "text" -> drawTextSteps(st)

\* ------------------------------------------------------------------------
\* The element renderer as a state machine.  The document is read as the
\* walk goes: each step takes the next element of the children list being
\* rendered (a group, a shape, an element that draws nothing) or finds the
\* list at its end.
\* ------------------------------------------------------------------------
MaxDepth == 2
MaxElems == 3

ClipRefs == {"", "c1", "c2", "gone"}

\* No shape drawn yet.
NoShape == [kind |-> "none"]

RenderInit ==
    /\ defs \in {DocDefs, NilDefs}
    /\ rstack = << >>
    /\ clipMask = Nil
    /\ last = NoShape
    /\ nelems = 0
    /\ PixIdle
    /\ CallIdle
    /\ OrderIdle
    /\ PathIdle
    /\ FontIdle
    /\ RaceIdle
    /\ DashIdle

\* Entering a group that carries a clip-path reference marks every group
\* around it as having one inside.
markNested(stack) == [k \in 1..Len(stack) |-> [stack[k] EXCEPT !.nested = TRUE]]

\* renderElement, case "g", "svg", up to the call of renderChildren.
EnterGroup ==
    \E clip \in ClipRefs :
        /\ Len(rstack) < MaxDepth
        /\ nelems < MaxElems
        /\ clipMask' = IF clip # "" THEN PushClipPath(defs, clipMask, clip)
                       ELSE clipMask
        /\ rstack' = Append(IF clip # "" THEN markNested(rstack) ELSE rstack,
                            [clip |-> clip, nested |-> FALSE])
        /\ nelems' = nelems + 1
        /\ UNCHANGED <<defs, last>>
        /\ UNCHANGED nonRenderVars

\* renderChildren of the innermost group is at the end of its list:
\* renderElement goes on after it (PopClipPath for a group with a clip-path
\* reference) and returns.
ExitGroup ==
    /\ rstack # << >>
    /\ clipMask' = IF rstack[Len(rstack)].clip # "" THEN PopClipPath(clipMask)
                   ELSE clipMask
    /\ rstack' = SubSeq(rstack, 1, Len(rstack) - 1)
    /\ UNCHANGED <<defs, last, nelems>>
    /\ UNCHANGED nonRenderVars

\* renderElement for a shape element: the computed style, then the driver.
DrawShape ==
    \E kind \in ShapeKinds, st \in ComputedStyles :
        /\ nelems < MaxElems
        /\ last' = [kind |-> kind, st |-> st, steps |-> drawShape(defs, kind, st),
                    mask |-> clipMask, scope |-> rstack]
        /\ nelems' = nelems + 1
        /\ UNCHANGED <<defs, rstack, clipMask>>
        /\ UNCHANGED nonRenderVars

\* renderElement for defs, title, desc, metadata, use, a stray tspan.
SkipElement ==
    /\ nelems < MaxElems
    /\ nelems' = nelems + 1
    /\ UNCHANGED <<defs, rstack, clipMask, last>>
    /\ UNCHANGED nonRenderVars

RenderNext == EnterGroup \/ ExitGroup \/ DrawShape \/ SkipElement

SpecRender == RenderInit /\ [][RenderNext]_vars

\* ------------------------------------------------------------------------
\* Compositor, one pixel at a time.  Coverage and alpha values are bytes;
\* an opacity is held in hundredths.
\* ------------------------------------------------------------------------
\* Byte values the pixel operations are run on.
Bytes == {0, 1, 2, 127, 128, 254, 255}

Opacities == {0, 50, 100}

\* The clip mask at the pixel: none active, or its coverage there.
ClipAt == {[active |-> FALSE, cov |-> 0]} \cup {[active |-> TRUE, cov |-> c] : c \in Bytes}

\* uint8(uint16(a) * uint16(c) / 255)
scaleByte(a, c) == ((a * c) \div 255) % 256

\* An applyClipToAlpha that leaves the coverage as it is.
applyClipToAlphaKeep(a, clip) == a

\* applyClipToAlpha at one pixel: the coverage left in the alpha mask.
applyClipToAlpha(a, clip) ==
    IF ~clip.active THEN a
    ELSE IF a = 0 THEN a
    ELSE scaleByte(a, clip.cov)

\* What a pixel operation did: the coverage it blended with (eff) and
\* whether it stored a new value in the framebuffer pixel.
pixelResult(kind, a, clip, eff, written) ==
    [kind |-> kind, cov |-> a, clip |-> clip, eff |-> eff, written |-> written]

\* compositeAlpha at one pixel (solid fill and stroke, through
\* rasterizeAndComposite).
compositeAlpha(kind, a, clip, opacity) ==
    IF a = 0 THEN pixelResult(kind, a, clip, 0, FALSE)
    ELSE IF clip.active /\ clip.cov = 0 THEN pixelResult(kind, a, clip, 0, FALSE)
    ELSE IF clip.active
    THEN pixelResult(kind, a, clip, scaleByte(a, clip.cov),
                     scaleByte(a, clip.cov) * opacity > 0)
    ELSE pixelResult(kind, a, clip, a, a * opacity > 0)

\* compositeGradPixel: maskA is the coverage left by applyClipToAlpha, colA
\* the alpha of the interpolated colour.
compositeGradPixel(a, clip, maskA, opacity, colA) ==
    IF maskA = 0 THEN pixelResult("gradient", a, clip, 0, FALSE)
    ELSE pixelResult("gradient", a, clip, maskA, maskA * opacity * colA > 0)

\* The pixel loop of DrawLinearGradient / DrawRadialGradient after the
\* driver's applyClipToAlpha.
gradientPixel(a, clip, opacity, colA) ==
    compositeGradPixel(a, clip, applyClipToAlpha(a, clip), opacity, colA)

\* The tiling loop of DrawPatternFill: pixels of zero coverage and tile
\* pixels of zero alpha are passed over, every other pixel is stored.
patternPixel(a, clip, maskA, tileA) ==
    IF maskA = 0 THEN pixelResult("pattern", a, clip, 0, FALSE)
    ELSE pixelResult("pattern", a, clip, maskA, tileA # 0)

\* The framebuffer pixel a composite meets: one colour channel and the
\* alpha channel (the background of NewFrameBuffer or what earlier
\* composites left there).
Pixels == [c : {0, 200}, a : {0, 128, 255}]

\* ------------------------------------------------------------------------
\* float64 arithmetic.  A float64 is neg, m, e with the value
\* (-1)^neg * m * 2^e, where m is a whole number below 2^53 held as four
\* limbs of 14 bits, least significant first, and m is at least 2^52
\* unless the value is 0.  Every operation computes the exact result on
\* whole numbers of any length (sequences of limbs) and rounds it to the
\* nearest float64, ties to the even mantissa, as the hardware does; no
\* two operations are fused into one (the amd64 build).  Values stay far
\* from the ends of the exponent range.
\* ------------------------------------------------------------------------
Limb == 2 ^ 14

limbAt(W, i) == IF i >= 1 /\ i <= Len(W) THEN W[i] ELSE 0

\* The four lowest limbs of W.
fit4(W) == <<limbAt(W, 1), limbAt(W, 2), limbAt(W, 3), limbAt(W, 4)>>

\* The limbs of W from the i-th on, as a sequence.
RECURSIVE limbsFrom(_, _)
limbsFrom(W, i) == IF i > Len(W) THEN <<>> ELSE <<W[i]>> \o limbsFrom(W, i + 1)

RECURSIVE bitLenInt(_)
bitLenInt(v) == IF v = 0 THEN 0 ELSE 1 + bitLenInt(v \div 2)

RECURSIVE topFrom(_, _)
topFrom(W, i) ==
    IF i = 0 THEN 0 ELSE IF W[i] # 0 THEN i ELSE topFrom(W, i - 1)

bitLenAt(W, i) == IF i = 0 THEN 0 ELSE (i - 1) * 14 + bitLenInt(W[i])

\* The number of bits of W (0 for the number 0).
bitLen(W) == bitLenAt(W, topFrom(W, Len(W)))

shrBy(W, q, r) ==
    [i \in 1..(IF Len(W) - q < 1 THEN 1 ELSE Len(W) - q) |->
        (limbAt(W, i + q) \div (2 ^ r))
        + (limbAt(W, i + q + 1) % (2 ^ r)) * (2 ^ (14 - r))]

\* W divided by 2^k, rounded down.
shr(W, k) == limbsFrom(shrBy(W, k \div 14, k % 14), 1)

shlBy(W, q, r) ==
    [i \in 1..(Len(W) + q + 1) |->
        (limbAt(W, i - q) % (2 ^ (14 - r))) * (2 ^ r)
        + (limbAt(W, i - q - 1) \div (2 ^ (14 - r)))]

\* W times 2^k.
shl(W, k) == limbsFrom(shlBy(W, k \div 14, k % 14), 1)

\* Bit k of W, bit 0 being the least significant.
bit(W, k) == (limbAt(W, (k \div 14) + 1) \div (2 ^ (k % 14))) % 2

\* The bits of W below bit k are all 0.
lowZero(W, k) ==
    /\ \A i \in 1..(k \div 14) : limbAt(W, i) = 0
    /\ limbAt(W, (k \div 14) + 1) % (2 ^ (k % 14)) = 0

RECURSIVE addFrom(_, _, _, _, _)
addStep(A, B, i, s, n) == <<s % Limb>> \o addFrom(A, B, i + 1, s \div Limb, n)

addFrom(A, B, i, c, n) ==
    IF i > n THEN <<c>>
    ELSE addStep(A, B, i, limbAt(A, i) + limbAt(B, i) + c, n)

\* A + B
add(A, B) == addFrom(A, B, 1, 0, IF Len(A) > Len(B) THEN Len(A) ELSE Len(B))

RECURSIVE subFrom(_, _, _, _, _)
subStep(A, B, i, d, n) ==
    IF d < 0 THEN <<d + Limb>> \o subFrom(A, B, i + 1, 1, n)
    ELSE <<d>> \o subFrom(A, B, i + 1, 0, n)

subFrom(A, B, i, c, n) ==
    IF i > n THEN <<>>
    ELSE subStep(A, B, i, limbAt(A, i) - limbAt(B, i) - c, n)

\* A - B, for A not below B
sub(A, B) == subFrom(A, B, 1, 0, IF Len(A) > Len(B) THEN Len(A) ELSE Len(B))

RECURSIVE cmpFrom(_, _, _)
cmpFrom(A, B, i) ==
    IF i = 0 THEN 0
    ELSE IF limbAt(A, i) > limbAt(B, i) THEN 1
    ELSE IF limbAt(A, i) < limbAt(B, i) THEN 0 - 1
    ELSE cmpFrom(A, B, i - 1)

\* A >= B
geq(A, B) == cmpFrom(A, B, IF Len(A) > Len(B) THEN Len(A) ELSE Len(B)) >= 0

RECURSIVE colSum(_, _, _, _)
colSum(A, B, k, i) ==
    IF i > Len(A) THEN 0
    ELSE A[i] * limbAt(B, k - i + 1) + colSum(A, B, k, i + 1)

RECURSIVE mulFrom(_, _, _, _, _)
mulStep(A, B, k, s, n) == <<s % Limb>> \o mulFrom(A, B, k + 1, s \div Limb, n)

mulFrom(A, B, k, c, n) ==
    IF k > n THEN <<>>
    ELSE mulStep(A, B, k, colSum(A, B, k, 1) + c, n)

\* A * B, for mantissas A and B
mul(A, B) == mulFrom(A, B, 1, 0, Len(A) + Len(B))

Zero == [neg |-> FALSE, m |-> <<0, 0, 0, 0>>, e |-> 0]

isZero(x) == x.m = <<0, 0, 0, 0>>

\* The float64 of mantissa m1 (53 or, after a carry, 54 bits) and exponent e.
carried(neg, m1, e) ==
    IF bit(m1, 53) = 1 THEN [neg |-> neg, m |-> fit4(shr(m1, 1)), e |-> e + 1]
    ELSE [neg |-> neg, m |-> fit4(m1), e |-> e]

\* W of more than 53 bits, k of them dropped: to the nearest, ties to even.
roundAt(neg, W, e, k) ==
    IF bit(W, k - 1) = 1 /\ (~lowZero(W, k - 1) \/ bit(W, k) = 1)
    THEN carried(neg, add(shr(W, k), <<1>>), e + k)
    ELSE carried(neg, shr(W, k), e + k)

roundLen(neg, W, e, len) ==
    IF len = 0 THEN Zero
    ELSE IF len <= 53
    THEN [neg |-> neg, m |-> fit4(shl(W, 53 - len)), e |-> e - (53 - len)]
    ELSE roundAt(neg, W, e, len - 53)

\* The float64 nearest to (-1)^neg * W * 2^e.
fround(neg, W, e) == roundLen(neg, W, e, bitLen(W))

\* float64(n) for a whole number n below 2^28 in size
fromInt(n) ==
    IF n >= 0 THEN fround(FALSE, <<n % Limb, n \div Limb>>, 0)
    ELSE fround(TRUE, <<(0 - n) % Limb, (0 - n) \div Limb>>, 0)

fneg(x) == [x EXCEPT !.neg = ~x.neg]

\* x * y
fmul(x, y) ==
    IF isZero(x) \/ isZero(y) THEN Zero
    ELSE fround(x.neg # y.neg, mul(x.m, y.m), x.e + y.e)

addMag(negA, A, negB, B, e) ==
    IF negA = negB THEN fround(negA, add(A, B), e)
    ELSE IF geq(A, B) THEN fround(negA, sub(A, B), e)
    ELSE fround(negB, sub(B, A), e)

\* x + y for x of the exponent not below y's, diff apart
addAligned(x, y, diff) ==
    IF diff > 64 THEN x ELSE addMag(x.neg, shl(x.m, diff), y.neg, y.m, y.e)

\* x + y
fadd(x, y) ==
    IF isZero(x) THEN y
    ELSE IF isZero(y) THEN x
    ELSE IF x.e >= y.e THEN addAligned(x, y, x.e - y.e)
    ELSE addAligned(y, x, y.e - x.e)

\* x - y
fsub(x, y) == fadd(x, fneg(y))

\* A quotient and what is left of the dividend: the limbs found so far
\* under the limb q.
quotCons(q, rest) == [limbs |-> rest.limbs \o <<q>>, r |-> rest.r]

\* Division of the whole number N by a divisor dv of one limb, from limb i
\* down, rem being what the limbs above left.
RECURSIVE shortFrom(_, _, _, _)
shortStep(N, dv, i, v) == quotCons(v \div dv, shortFrom(N, dv, i - 1, v % dv))

shortFrom(N, dv, i, rem) ==
    IF i = 0 THEN [limbs |-> <<>>, r |-> rem]
    ELSE shortStep(N, dv, i, rem * Limb + N[i])

\* Fourteen more bits of the quotient r / d of two mantissas, q being the
\* bits found so far, and what is left of r.
RECURSIVE divBits(_, _, _, _)
divBits(r, d, n, q) ==
    IF n = 0 THEN [q |-> q, r |-> r]
    ELSE IF geq(r, d) THEN divBits(fit4(shl(sub(r, d), 1)), d, n - 1, 2 * q + 1)
    ELSE divBits(fit4(shl(r, 1)), d, n - 1, 2 * q)

\* nl more limbs of the quotient r / d.
RECURSIVE longFrom(_, _, _)
longStep(step, d, nl) == quotCons(step.q, longFrom(step.r, d, nl - 1))

longFrom(r, d, nl) ==
    IF nl = 0 THEN [limbs |-> <<>>, r |-> IF r = <<0, 0, 0, 0>> THEN 0 ELSE 1]
    ELSE longStep(divBits(r, d, 14, 0), d, nl)

\* Twice the quotient, plus 1 when the division left a remainder: enough
\* to round the exact quotient.
withSticky(quot) == add(shl(quot.limbs, 1), <<IF quot.r = 0 THEN 0 ELSE 1>>)

\* x / y, y not 0.  The quotient of the mantissas to 70 bits after the
\* point, by short division when the divisor's mantissa has one limb.
fdiv(x, y) ==
    IF isZero(x) THEN Zero
    ELSE IF y.m[1] = 0 /\ y.m[2] = 0 /\ y.m[3] = 0
    THEN fround(x.neg # y.neg,
                withSticky(shortFrom(<<0, 0, 0, 0, 0>> \o x.m, y.m[4], 9, 0)),
                x.e - y.e - 113)
    ELSE fround(x.neg # y.neg, withSticky(longFrom(x.m, y.m, 5)),
                x.e - y.e - 70)

\* The whole part of x, for x not negative and below 2^28
truncInt(x) ==
    IF isZero(x) \/ 0 - x.e >= 53 THEN 0
    ELSE limbAt(shr(x.m, 0 - x.e), 1) + Limb * limbAt(shr(x.m, 0 - x.e), 2)

\* A number the document writes in hundredths (an opacity "0.5", an offset
\* "50%"): strconv.ParseFloat gives the float64 nearest to it, and so does
\* the division of the percentage by 100.0.
hundredth(n) == fdiv(fromInt(n), fromInt(100))

\* a := float64(mask) / 255.0 * opacity
solidAlpha(mask, o) == fmul(fdiv(fromInt(mask), fromInt(255)), hundredth(o))

\* a := float64(maskA) / 255.0 * opacity * float64(col.A) / 255.0
tintAlpha(maskA, o, colA) ==
    fdiv(fmul(fmul(fdiv(fromInt(maskA), fromInt(255)), hundredth(o)),
              fromInt(colA)),
         fromInt(255))

\* uint8(c*a + bg*(1-a)): every product and sum is rounded to a float64, the
\* conversion drops the fraction.
blend(c, bg, a) ==
    truncInt(fadd(fmul(fromInt(c), a), fmul(fromInt(bg), fsub(fromInt(1), a)))) % 256

\* uint8(math.Min(255, x)) for x not negative
min255(x) == IF truncInt(x) >= 255 THEN 255 ELSE truncInt(x)

\* A variant of solidStore that blends with the shape's own coverage
\* whether or not the loop passed the pixel over.
solidStoreAlways(r, bg, col, o) ==
    [c |-> blend(col, bg.c, solidAlpha(r.cov, o)),
     a |-> min255(fadd(fromInt(bg.a), fmul(fromInt(r.cov), hundredth(o))))]

\* The pixel compositeAlpha leaves: untouched when the loop passed it over
\* (`continue`), else SetRGBA of the blend, the alpha being
\* uint8(min(255, bg.A + mask*opacity)).
solidStore(r, bg, col, o) ==
    IF ~r.written THEN bg
    ELSE [c |-> blend(col, bg.c, solidAlpha(r.eff, o)),
          a |-> min255(fadd(fromInt(bg.a), fmul(fromInt(r.eff), hundredth(o))))]

\* A variant of tintStore whose alpha is the blend's alone.
tintStoreOverwrite(r, bg, col, o, colA) ==
    IF ~r.written THEN bg
    ELSE [c |-> blend(col, bg.c, tintAlpha(r.eff, o, colA)),
          a |-> min255(fmul(fromInt(255), tintAlpha(r.eff, o, colA)))]

\* The pixel compositeGradPixel and the tiling loop of DrawPatternFill
\* leave: a = maskA/255 * opacity * col.A/255, the alpha being
\* uint8(min(255, bg.A + 255*a)).
tintStore(r, bg, col, o, colA) ==
    IF ~r.written THEN bg
    ELSE [c |-> blend(col, bg.c, tintAlpha(r.eff, o, colA)),
          a |-> min255(fadd(fromInt(bg.a),
                            fmul(fromInt(255), tintAlpha(r.eff, o, colA))))]

\* The record of a pixel operation: what it did, the opacity, the pixel
\* before and the pixel after.
pixelStored(r, bg, o, colA, out) ==
    r @@ [bg |-> bg, opacity |-> o, colA |-> colA, out |-> out]

solidPixel(r, bg, col, o) == pixelStored(r, bg, o, 255, solidStore(r, bg, col, o))

tintPixel(r, bg, col, o, colA) ==
    pixelStored(r, bg, o, colA, tintStore(r, bg, col, o, colA))

\* A glyph pixel of Drawer.DrawString on the framebuffer image
\* (renderWithOpenType, renderWithBasicFont): the glyph's coverage is the
\* whole mask, pixels of zero coverage are passed over, the clip mask of
\* the raster context is not an input.
glyphPixel(a, clip) == pixelResult("text", a, clip, a, a > 0)

\* One channel of drawGlyphOver (image/draw, reached from DrawString
\* through DrawMask with a uniform source and an alpha mask), computed in
\* 16 bits: with m = 65535, ma = cov * 257, s16 = s * 257 and
\* a = k * 257 it stores uint8(((d * a + s16 * ma) / m) >> 8).  The sum is
\* 257 * (d * k + s * cov * 257) and m is 257 * 255, so the quotient is
\* taken on the sum divided by 257; a sum of 2^32 or more wraps around in
\* uint32, which is a sum divided by 257 above 16711935.
glyphOver(d, s, k, cov) ==
    IF d * k + s * cov * 257 <= 16711935
    THEN (((d * k + s * cov * 257) \div 255) \div 256) % 256
    ELSE (((d * k + s * cov * 257 - 16711936) \div 255) \div 256) % 256

\* m - sa * ma / m of drawGlyphOver, for the colour's alpha and the
\* glyph's coverage as bytes.
glyphKeep(cov, colA) == 65535 - ((colA * cov * 257) \div 255)

\* The pixel the glyph draw leaves: pixels of zero coverage are passed
\* over; elsewhere the text colour, whose channels Uniform.RGBA hands over
\* as they are stored (not scaled by the colour's alpha), is put over the
\* pixel.
textStore(r, bg, col, colA) ==
    IF ~r.written THEN bg
    ELSE [c |-> glyphOver(bg.c, col, glyphKeep(r.eff, colA), r.eff),
          a |-> glyphOver(bg.a, colA, glyphKeep(r.eff, colA), r.eff)]

textPixel(r, bg, col, colA) ==
    pixelStored(r, bg, 100, colA, textStore(r, bg, col, colA))

\* Between two pixels of a driver's pixel loop.
AtNextPixel == [kind |-> "none"]

PixInit ==
    /\ px = AtNextPixel
    /\ CallIdle
    /\ OrderIdle
    /\ PathIdle
    /\ FontIdle
    /\ RaceIdle
    /\ DashIdle
    /\ RenderIdle

\* A solid fill or stroke is composited at a pixel (DrawRect, DrawEllipse,
\* DrawLine, DrawPolyline, DrawPath through rasterizeAndComposite).
CompositeSolidPixel ==
    /\ px = AtNextPixel
    /\ \E kind \in {"fill", "stroke"}, a \in Bytes, clip \in ClipAt, o \in Opacities,
          bg \in Pixels, col \in {100, 255} :
           /\ px' = solidPixel(compositeAlpha(kind, a, clip, o), bg, col, o)
           /\ UNCHANGED nonPixVars

\* A gradient fill at a pixel (the FillURL branch of a driver, drawURLFill).
GradientFillPixel ==
    /\ px = AtNextPixel
    /\ \E a \in Bytes, clip \in ClipAt, o \in Opacities, colA \in Bytes,
          bg \in Pixels, col \in {100, 255} :
           /\ px' = tintPixel(gradientPixel(a, clip, o, colA), bg, col, o, colA)
           /\ UNCHANGED nonPixVars

\* A pattern fill at a pixel.
PatternFillPixel ==
    /\ px = AtNextPixel
    /\ \E a \in Bytes, clip \in ClipAt, tileA \in Bytes, o \in Opacities,
          bg \in Pixels, col \in {100, 255} :
           /\ px' = tintPixel(patternPixel(a, clip, applyClipToAlpha(a, clip), tileA),
                               bg, col, o, tileA)
           /\ UNCHANGED nonPixVars

\* ------------------------------------------------------------------------
\* Gradient stops.  Offsets and the gradient parameter t are held in
\* hundredths (times Denom) and compared as such; the interpolation works
\* on their float64 values.  A colour is one channel byte.
\* ------------------------------------------------------------------------
MaxStops == 3

\* The offset attribute of a <stop>: an integer percentage ("150%"), a
\* plain number (given times Denom), or text that is no number.
OffsetAttrs ==
    {[form |-> "percent", n |-> n] : n \in {-50, 0, 50, 100, 150}}
    \cup {[form |-> "number", n |-> n] : n \in {0, 50, 100}}
    \cup {[form |-> "junk", n |-> 0]}

\* parseOffsetValue: "50%" is 0.5, a plain number is itself, anything else
\* is 0.  The value is not clamped.
parseOffsetValue(attr) ==
    CASE attr.form = "percent" -> (attr.n * Denom) \div 100
      [] attr.form = "number" -> attr.n
      [] OTHER -> 0

\* parseGradientStop followed by resolveStops: the stop the sampler works on.
resolveStop(attr, col) == [offset |-> parseOffsetValue(attr), col |-> col]

StopColours == {10, 200}

GradientStops ==
    UNION {[1..n -> {resolveStop(a, c) : a \in OffsetAttrs, c \in StopColours}]
           : n \in 0..MaxStops}

\* The index of the first stop from i on whose offset is not below t (the
\* loop of interpolateStops), or 0 when there is none.
RECURSIVE bracketFrom(_, _, _)
bracketFrom(stops, t, i) ==
    IF i > Len(stops) THEN 0
    ELSE IF t <= stops[i].offset THEN i
    ELSE bracketFrom(stops, t, i + 1)

\* uint8(s0*(1-f) + s1*f)
mixWith(s0, s1, f) ==
    truncInt(fadd(fmul(fromInt(s0), fsub(fromInt(1), f)), fmul(fromInt(s1), f))) % 256

\* The channel between two stops at offsets o0 < o1, with d = o1 - o0 and
\* f = (t - o0) / d computed on the float64 values.
mixChannel(s0, s1, t, o0, o1) ==
    mixWith(s0, s1, fdiv(fsub(hundredth(t), hundredth(o0)),
                         fsub(hundredth(o1), hundredth(o0))))

interpolateBetween(stops, t, i) ==
    IF i = 0 THEN stops[Len(stops)].col
    ELSE IF stops[i].offset - stops[i - 1].offset <= 0 THEN stops[i].col
    ELSE mixChannel(stops[i - 1].col, stops[i].col, t, stops[i - 1].offset,
                    stops[i].offset)

\* interpolateStops, for a non-empty stop list.
interpolateStops(stops, t) ==
    IF t <= stops[1].offset THEN stops[1].col
    ELSE IF t >= stops[Len(stops)].offset THEN stops[Len(stops)].col
    ELSE interpolateBetween(stops, t, bracketFrom(stops, t, 2))

\* The clamp of t in the pixel loop of DrawLinearGradient.
clampT(t) == IF t < 0 THEN 0 ELSE IF t > Denom THEN Denom ELSE t

\* Positions along the gradient vector at which a pixel can lie.
SamplePoints == {-50, 0, 25, 50, 75, 100, 150}

\* DrawLinearGradient at one covered pixel that lies at parameter rawT.
\* A gradient without stops draws nothing.
SampleLinearGradient ==
    /\ px = AtNextPixel
    /\ \E stops \in GradientStops, rawT \in SamplePoints :
           /\ px' = IF Len(stops) = 0
                    THEN [kind |-> "sample", stops |-> stops, rawT |-> rawT, drawn |-> FALSE]
                    ELSE [kind |-> "sample", stops |-> stops, rawT |-> rawT, drawn |-> TRUE,
                          col |-> interpolateStops(stops, clampT(rawT))]
           /\ UNCHANGED nonPixVars

\* A glyph pixel of drawTextRaw: RenderText draws on rc.fb.Image().
DrawTextPixel ==
    /\ px = AtNextPixel
    /\ \E a \in Bytes, clip \in ClipAt, colA \in Bytes,
          bg \in Pixels, col \in {100, 255} :
           /\ px' = textPixel(glyphPixel(a, clip), bg, col, colA)
           /\ UNCHANGED nonPixVars

\* The pixel loop goes on to the next pixel.
NextPixel ==
    /\ px # AtNextPixel
    /\ px' = AtNextPixel
    /\ UNCHANGED nonPixVars

PixNext ==
    \/ CompositeSolidPixel
    \/ GradientFillPixel
    \/ PatternFillPixel
    \/ SampleLinearGradient
    \/ DrawTextPixel
    \/ NextPixel

SpecPix == PixInit /\ [][PixNext]_vars

\* ------------------------------------------------------------------------
\* The render call: ParseSVG, ResolveViewport, NewFrameBuffer,
\* RenderElements, EncodePNG
\* ------------------------------------------------------------------------
MaxBody == 2

Abs(n) == IF n < 0 THEN 0 - n ELSE n

\* Elements of a document body: a rect, and paths with well-formed, empty
\* and damaged path data.
BodyElements ==
    { [name |-> "rect", d |-> << >>],
      [name |-> "path", d |-> <<"M","0"," ","0"," ","L","2","0"," ","1","0"," ">>],
      [name |-> "path", d |-> << >>],
      [name |-> "path", d |-> <<".">>] }

\* The bytes handed to RenderPNG: a complete document with an <svg> root,
\* one cut off before its end, one without an <svg> element.
Documents ==
    [form : {"complete", "truncated", "noroot"},
     body : UNION {[1..n -> BodyElements] : n \in 0..MaxBody}]

OptionSets ==
    [Width : {-2, 0, 3}, Height : {-2, 0, 3}, DPI : {0, 96},
     DefaultFamily : {"", "Helvetica"}]

\* ParseSVG: the error it returns, or "nil".
ParseSVG(doc) ==
    CASE doc.form = "noroot" -> "no SVG root element found"
      [] doc.form = "truncated" -> "failed to parse SVG root"
      [] OTHER -> "nil"

\* image.Rect(0, 0, width, height) swaps the corners of a rectangle given
\* with a negative extent: the image is |width| by |height| pixels.
NewFrameBuffer(width, height) == [Dx |-> Abs(width), Dy |-> Abs(height)]

\* A variant of EncodePNG that hands back the bytes written so far together
\* with the encoder's error.
EncodePNGPartial(fb) ==
    IF fb.Dx <= 0 \/ fb.Dy <= 0
    THEN [png |-> <<"PNG">>, err |-> "png: invalid image size"]
    ELSE [png |-> <<"PNG", fb.Dx, fb.Dy>>, err |-> "nil"]

\* EncodePNG: png.Encode refuses an image without pixels.
EncodePNG(fb) ==
    IF fb.Dx <= 0 \/ fb.Dy <= 0
    THEN [png |-> "nil", err |-> "png: invalid image size"]
    ELSE [png |-> <<"PNG", fb.Dx, fb.Dy>>, err |-> "nil"]

\* Whether the fill scanner, started in state s, leaves its outer loop.
RECURSIVE scanReturns(_, _, _, _)
scanReturns(v, str, s, fuel) ==
    IF s.pc = "done" THEN TRUE
    ELSE IF fuel = 0 THEN FALSE
    ELSE scanReturns(v, str, buildPath(v, str, s), fuel - 1)

\* renderElement on one body element returns.  renderPath skips an empty
\* d; DrawPath fills with the default style through buildPath.
elementReturns(e) ==
    IF e.name # "path" THEN TRUE
    ELSE IF e.d = << >> THEN TRUE
    ELSE scanReturns([scaleX |-> 1, scaleY |-> 1, offsetX |-> 0, offsetY |-> 0],
                     e.d, scanStart, IterCap(e.d))

\* RenderElements returns (it never returns an error).
RenderElements(doc) == \A k \in 1..Len(doc.body) : elementReturns(doc.body[k])

NoCall == [state |-> "idle"]

returned(doc, opts, dpi, family, png, err) ==
    [state |-> "returned", doc |-> doc, opts |-> opts, dpi |-> dpi,
     family |-> family, png |-> png, err |-> err]

\* RenderPNG after the document parsed.
renderParsed(doc, opts, dpi, family, enc) ==
    IF ~RenderElements(doc)
    THEN [state |-> "running", doc |-> doc, opts |-> opts, dpi |-> dpi, family |-> family]
    ELSE returned(doc, opts, dpi, family, enc.png, enc.err)

\* RenderPNG with the defaults of DPI and DefaultFamily applied.
renderPNG(doc, opts, dpi, family) ==
    IF ParseSVG(doc) # "nil"
    THEN returned(doc, opts, dpi, family, "nil", ParseSVG(doc))
    ELSE renderParsed(doc, opts, dpi, family,
                      EncodePNG(NewFrameBuffer(opts.Width, opts.Height)))

CallInit ==
    /\ res = NoCall
    /\ OrderIdle
    /\ PixIdle
    /\ PathIdle
    /\ FontIdle
    /\ RaceIdle
    /\ DashIdle
    /\ RenderIdle

\* A call of RenderPNG, up to its return (or for ever, when it does not
\* return).
RenderPNGCall ==
    \E doc \in Documents, opts \in OptionSets :
        /\ res = NoCall
        /\ res' = renderPNG(doc, opts,
                            IF opts.DPI = 0 THEN 96 ELSE opts.DPI,
                            IF opts.DefaultFamily = "" THEN "Arial" ELSE opts.DefaultFamily)
        /\ UNCHANGED nonCallVars

\* The caller takes the result of a call that returned.
CallerProceeds ==
    /\ res.state = "returned"
    /\ res' = NoCall
    /\ UNCHANGED nonCallVars

CallNext == RenderPNGCall \/ CallerProceeds

SpecCall == CallInit /\ [][CallNext]_vars

\* ------------------------------------------------------------------------
\* Drawing order: renderChildren, renderElement, renderText
\* ------------------------------------------------------------------------
MaxItems == 3

\* What a <text> element holds, in document order: character data, a
\* tspan without an x attribute ("flow"), a tspan with one ("abs").  Every
\* item has text that is not blank.
TextItems == {"chars", "flow", "abs"}

TextElements ==
    { [name |-> "text", items |-> its] :
          its \in UNION {[1..n -> TextItems] : n \in 0..MaxItems} }

RectElement == [name |-> "rect", items |-> << >>]

\* The children of the root: a text element, with or without a rect before
\* and after it.
OrderDocs ==
    { pre \o <<txt>> \o post :
          pre \in {<< >>, <<RectElement>>},
          txt \in TextElements,
          post \in {<< >>, <<RectElement>>} }

\* The positions, from k on, of the items of the given kinds.
RECURSIVE itemsOf(_, _, _)
itemsOf(items, kinds, k) ==
    IF k > Len(items) THEN << >>
    ELSE (IF items[k] \in kinds THEN <<k>> ELSE << >>)
         \o itemsOf(items, kinds, k + 1)

\* renderText: the items in the order they are drawn.  parseElement joins
\* all character data of the element into elem.Text.  With a flow tspan and
\* character data, DrawTextGroup draws elem.Text and the flow tspans, and
\* the tspans with an x come after; otherwise elem.Text is drawn and then
\* every tspan.
renderText(items) ==
    IF itemsOf(items, {"flow"}, 1) # << >> /\ itemsOf(items, {"chars"}, 1) # << >>
    THEN itemsOf(items, {"chars"}, 1) \o itemsOf(items, {"flow"}, 1)
         \o itemsOf(items, {"abs"}, 1)
    ELSE itemsOf(items, {"chars"}, 1) \o itemsOf(items, {"flow", "abs"}, 1)

\* The draws of one child of the root, each named by the child's position
\* and the item's position in it (0 for a shape).
drawsOf(e, drawn) == [j \in 1..Len(drawn) |-> <<e, drawn[j]>>]

OrderInit ==
    /\ ord \in [doc : OrderDocs, next : {1}, log : {<< >>}]
    /\ PathIdle
    /\ FontIdle
    /\ RaceIdle
    /\ DashIdle
    /\ RenderIdle
    /\ PixIdle
    /\ CallIdle

\* renderElement on a rect: renderRect draws it.
RenderRectElement ==
    /\ ord.next <= Len(ord.doc)
    /\ ord.doc[ord.next].name = "rect"
    /\ ord' = [ord EXCEPT !.next = ord.next + 1,
                          !.log = ord.log \o drawsOf(ord.next, <<0>>)]
    /\ UNCHANGED nonOrderVars

\* renderElement on a text element: renderText draws its items.
RenderTextElement ==
    /\ ord.next <= Len(ord.doc)
    /\ ord.doc[ord.next].name = "text"
    /\ ord' = [ord EXCEPT !.next = ord.next + 1,
                          !.log = ord.log
                                  \o drawsOf(ord.next,
                                             renderText(ord.doc[ord.next].items))]
    /\ UNCHANGED nonOrderVars

OrderNext == RenderRectElement \/ RenderTextElement

SpecOrder == OrderInit /\ [][OrderNext]_vars

\* ------------------------------------------------------------------------
\* Claims about rendering with the font catalog
\* ------------------------------------------------------------------------
\* C1: rendering the same input twice gives the same output: two RenderPNG
\* calls on the same document with the same options, with no RegisterFonts
\* or ClearFontCache call between or during them, draw the text with the
\* same face,
\* whatever order the font map is iterated in and whatever other RenderPNG
\* calls were made in between.
C1_SameInputSameOutput ==
    \A i, j \in 1..Len(calls) :
        (/\ calls[i].scan = calls[j].scan
         /\ calls[i].epoch = calls[j].epoch
         /\ calls[i].epochEnd = calls[i].epoch
         /\ calls[j].epochEnd = calls[j].epoch)
            => calls[i].face = calls[j].face

\* The faces of the first family of the fallback list that has a font
\* loaded; the built-in face when no family has one.
RECURSIVE firstRegistered(_, _, _, _)
firstRegistered(rf, families, style, i) ==
    IF i > Len(families) THEN {BasicFont}
    ELSE IF FindFont(rf, families[i], style) # {}
    THEN FindFont(rf, families[i], style)
    ELSE firstRegistered(rf, families, style, i + 1)

\* C9: text is drawn with the first family of the fallback list for which
\* a font is registered, and with the built-in fallback face only when no
\* listed family has one.
C9_FirstRegisteredFamilyDrawn ==
    \A i \in 1..Len(calls) :
        calls[i].face \in firstRegistered(calls[i].loaded, fontFamilies(req),
                                          fontStyleStr(req), 1)

\* ------------------------------------------------------------------------
\* Claims about the path scanners
\* ------------------------------------------------------------------------
\* The round the running scanner would execute in the current state.
nextRound == Round(scanner, vp, data, sc)

\* C2: on every path data string each of the three path scanners (fill,
\* solid stroke, dashed stroke) terminates: no scanner ever reaches a state
\* from which its next round changes neither the reader position, nor the
\* remembered command letter, nor the loop it is in (such a round repeats
\* forever).
C2_ScannersTerminate == ~Spins(scanner, vp, data, sc)

\* The pixel-space point a drawing item leaves the pen at: its last
\* coordinate pair, or for ClosePath the point of the latest MoveTo (the
\* origin when there is none).
RECURSIVE penAfter(_, _, _)
penAfter(v, out, i) ==
    IF i = 0 THEN toPixel(v, 0, 0)
    ELSE IF out[i].op = "Z"
    THEN (IF \E j \in 1..i : out[j].op = "M"
          THEN out[CHOOSE j \in 1..i : out[j].op = "M"
                         /\ \A k \in (j + 1)..i : out[k].op # "M"].pts
          ELSE toPixel(v, 0, 0))
    ELSE SubSeq(out[i].pts, Len(out[i].pts) - 1, Len(out[i].pts))

\* The last control point of a curve item (CubeTo: its second control
\* point; QuadTo: its control point).
ctrlOf(item) ==
    IF item.op = "C" THEN SubSeq(item.pts, 3, 4) ELSE SubSeq(item.pts, 1, 2)

\* The first control point the path grammar prescribes for the smooth
\* curve emitted as item i: the reflection of the previous item's control
\* point about the pen position when the previous command is a compatible
\* curve, the pen position itself otherwise.
smoothCtrl(v, out, i, compatible) ==
    IF i > 1 /\ out[i - 1].cmd \in compatible
    THEN << 2 * penAfter(v, out, i - 1)[1] - ctrlOf(out[i - 1])[1],
            2 * penAfter(v, out, i - 1)[2] - ctrlOf(out[i - 1])[2] >>
    ELSE penAfter(v, out, i - 1)

\* C6: the first control point of every S/s (T/t) curve the fill scanner
\* emits is 2*current - lastControl when the immediately preceding command
\* is C/c/S/s (Q/q/T/t), and the current point itself otherwise.
C6_SmoothReflection ==
    scanner = "fill" =>
        \A i \in 1..Len(sc.out) :
            /\ sc.out[i].cmd \in {"S", "s"} =>
                   SubSeq(sc.out[i].pts, 1, 2)
                       = smoothCtrl(vp, sc.out, i, {"C", "c", "S", "s"})
            /\ sc.out[i].cmd \in {"T", "t"} =>
                   SubSeq(sc.out[i].pts, 1, 2)
                       = smoothCtrl(vp, sc.out, i, {"Q", "q", "T", "t"})

\* The command letters of the SVG path grammar.
SvgCmds == {"M", "m", "L", "l", "H", "h", "V", "v", "C", "c", "S", "s",
            "Q", "q", "T", "t", "A", "a", "Z", "z"}

\* The scanner stands right after an unknown command letter and a
\* well-formed number follows.
atUnknownWithNumber ==
    /\ sc.pc = "loop"
    /\ sc.pos > 1
    /\ data[sc.pos - 1] = sc.lastCmd
    /\ isPathCmd(sc.lastCmd)
    /\ sc.lastCmd \notin SvgCmds
    /\ readFloat(data, sc.pos).ok

\* C7: when an unknown command letter is followed by a number, the scanner
\* skips the number (its next round moves the reader forward or enters the
\* number-skipping loop) and emits no geometry for it.
C7_UnknownLetterSkipped ==
    atUnknownWithNumber =>
        /\ nextRound.out = sc.out
        /\ (nextRound.pos > sc.pos \/ nextRound.pc = "skip")

\* The reader stands at a malformed numeric token: a byte that starts a
\* number, from which no number can be read.
atMalformedToken ==
    /\ sc.pc # "done"
    /\ sc.lastCmd \in SvgCmds
    /\ isNextFloat(data, sc.pos)
    /\ ~readFloat(data, sc.pos).ok

\* C8: at a malformed numeric token the failed read consumes no input,
\* every item emitted before the fault stays in the output, and the scan
\* goes on past the fault (the round at the fault is not repeated forever),
\* so that the commands after the next command letter are still emitted.
C8_MalformedTruncatesCommand ==
    atMalformedToken =>
        /\ readFloat(data, sc.pos).pos = skipWS(data, sc.pos)
        /\ Len(nextRound.out) >= Len(sc.out)
        /\ SubSeq(nextRound.out, 1, Len(sc.out)) = sc.out
        /\ ~sameControl(sc, nextRound)

\* ------------------------------------------------------------------------
\* Claims about the clip scope and the drivers' short-circuits
\* ------------------------------------------------------------------------
\* The mask PushClipPath builds for a clipPath id.
maskOf(id) == <<"mask", id>>

resolvable(frame) == ~defs.isNil /\ frame.clip \in defs.ClipPaths

\* C3 (as stated): for every group with a resolvable clip-path the mask
\* built at its entry is the active mask whenever a descendant shape is
\* drawn, and no mask is left once every group has been left.
C3_MaskActiveInScope ==
    /\ last.kind # "none" =>
           \A k \in 1..Len(last.scope) :
               resolvable(last.scope[k]) => last.mask = maskOf(last.scope[k].clip)
    /\ rstack = << >> => clipMask = Nil

\* C3 (amended): the mask of a group with a resolvable clip-path is the
\* active mask whenever a descendant shape is drawn, as long as no nested
\* group carrying a clip-path reference has been entered inside it; and a
\* mask is active only while the group that built it is still open.
C3_MaskActiveUntilNestedClip ==
    /\ last.kind # "none" =>
           \A k \in 1..Len(last.scope) :
               (resolvable(last.scope[k]) /\ ~last.scope[k].nested)
                   => last.mask = maskOf(last.scope[k].clip)
    /\ clipMask # Nil =>
           \E k \in 1..Len(rstack) :
               resolvable(rstack[k]) /\ clipMask = maskOf(rstack[k].clip)

\* A shape was drawn under the mask of its enclosing clipped group, and the
\* group has since been left with no mask remaining.
C3_Witness ==
    /\ last.kind # "none"
    /\ Len(last.steps) > 0
    /\ \E k \in 1..Len(last.scope) :
           /\ resolvable(last.scope[k])
           /\ ~last.scope[k].nested
           /\ last.mask = maskOf(last.scope[k].clip)
    /\ rstack = << >>
    /\ clipMask = Nil

hasStep(steps, part) == \E k \in 1..Len(steps) : steps[k][1] = part

\* C10: a shape whose fill is none or of zero alpha performs no step for
\* the fill (no rasterize, composite, gradient or pattern), and a shape
\* whose stroke is none or of zero alpha performs none for the stroke.
C10_NoStepForInvisiblePaint ==
    last.kind # "none" =>
        /\ (last.st.fill.none \/ (last.st.fill.url = "" /\ last.st.fill.alpha = 0))
               => ~hasStep(last.steps, "fill")
        /\ (last.st.stroke.none \/ last.st.stroke.alpha = 0)
               => ~hasStep(last.steps, "stroke")

\* ------------------------------------------------------------------------
\* Claims about unresolvable references
\* ------------------------------------------------------------------------
\* The fill of the style references an id that names no gradient and no
\* pattern of the definitions.
fillUnresolvable(d, st) ==
    /\ st.fill.url # ""
    /\ drawURLFill(d, st.fill.url) = << >>

\* The steps of a driver that write framebuffer pixels for the part.
paints(steps, part) ==
    \E k \in 1..Len(steps) :
        steps[k][1] = part /\ steps[k][2] \in {"composite", "gradient", "pattern"}

\* C11: a fill that references a gradient or pattern id missing from the
\* definitions writes no pixel while the shape's stroke is still drawn, and
\* a shape inside groups whose clip references are all missing is drawn
\* under no mask.
C11_MissingReferenceSkipped ==
    last.kind # "none" =>
        /\ fillUnresolvable(defs, last.st) =>
               /\ ~paints(last.steps, "fill")
               /\ (last.kind # "text" /\ strokeOn(last.st)) => paints(last.steps, "stroke")
        /\ (\A k \in 1..Len(last.scope) : ~resolvable(last.scope[k]))
               => last.mask = Nil

\* ------------------------------------------------------------------------
\* Claims about the compositor and the gradient engine
\* ------------------------------------------------------------------------
\* C12: while a clip mask is active, a solid fill, stroke, gradient fill or
\* pattern fill is intersected with it exactly once: the coverage blended
\* is cov * clip / 255, so a pixel of clip coverage 0 is not stored and at
\* clip coverage 255 the shape's own coverage is used unchanged.
C12_ClipIntersectedOnce ==
    (px.kind \in {"fill", "stroke", "gradient", "pattern"} /\ px.clip.active) =>
        /\ px.eff = scaleByte(px.cov, px.clip.cov)
        /\ px.clip.cov = 0 => ~px.written
        /\ px.clip.cov = 255 => px.eff = px.cov

\* A gradient fill was stored at a pixel fully inside the active clip mask.
C12_Witness ==
    /\ px.kind = "gradient"
    /\ px.clip.active
    /\ px.clip.cov = 255
    /\ px.cov = 128
    /\ px.written

\* C17: a sample beyond t = 1 has exactly the last stop's colour and a
\* sample below the first stop's offset exactly the first stop's colour.
C17_SamplesClampToBoundaryStops ==
    (px.kind = "sample" /\ px.drawn) =>
        /\ px.rawT > Denom => px.col = px.stops[Len(px.stops)].col
        /\ px.rawT < px.stops[1].offset => px.col = px.stops[1].col

\* ------------------------------------------------------------------------
\* Claims about the render call
\* ------------------------------------------------------------------------
\* C13: a call with a requested width or height that is zero or negative
\* returns an error and no image.
C13_BadDimensionsRejected ==
    (res.state = "returned" /\ (res.opts.Width <= 0 \/ res.opts.Height <= 0)) =>
        res.err # "nil" /\ res.png = "nil"

\* C14: once the document parses and the requested dimensions are
\* positive, the call returns PNG bytes and a nil error, whatever the
\* elements contain, with DPI 0 and an empty DefaultFamily replaced by 96
\* and Arial.
C14_FailsOnlyStructurally ==
    (res.state # "idle" /\ ParseSVG(res.doc) = "nil"
        /\ res.opts.Width > 0 /\ res.opts.Height > 0) =>
        /\ res.state = "returned"
        /\ res.err = "nil"
        /\ res.png # "nil"
        /\ res.dpi > 0
        /\ res.family # ""

\* C15: a call that returns hands back either PNG bytes with a nil error
\* or no bytes with an error; a document cut off before its end gives the
\* latter.
C15_CompletesOrFailsAtomically ==
    res.state = "returned" =>
        /\ (res.png # "nil" /\ res.err = "nil") \/ (res.png = "nil" /\ res.err # "nil")
        /\ res.doc.form = "truncated" => res.err # "nil"

\* A call on a document cut off before its end returned an error and no
\* bytes.
C15_Witness ==
    /\ res.state = "returned"
    /\ res.doc.form = "truncated"
    /\ Len(res.doc.body) > 0
    /\ res.png = "nil"
    /\ res.err # "nil"

\* ------------------------------------------------------------------------
\* Claims about font lookup misses
\* ------------------------------------------------------------------------
\* No loaded font is of the family (names compared without regard to case).
noFontOf(rf, family) ==
    ~\E k \in DOMAIN rf : HasPrefix(ToLower(k), ToLower(family) \o <<"-">>)

\* Every call of the log reported an error.
allFailed(log) == \A n \in 1..Len(log) : log[n].err

\* The families the calls of the log asked for, in the order of the calls.
familiesOf(log) == [n \in 1..Len(log) |-> log[n].family]

\* C18: in every RenderPNG call, every MeasureText call (those of
\* measureTextPix and the one for a character's advance) returned an error
\* exactly when the Renderer held no font of the family at that call, no
\* RenderText call returned an error and the text was drawn, the width used
\* for text-anchor is the estimate only when MeasureText was called for
\* every family of the list and failed for each, and it is a measured
\* width only when the last MeasureText call succeeded.
C18_MissSignalledByMeasureOnly ==
    \A i \in 1..Len(calls) :
        /\ \A n \in 1..Len(calls[i].measures \o calls[i].advances) :
               (calls[i].measures \o calls[i].advances)[n].err
                   <=> noFontOf((calls[i].measures \o calls[i].advances)[n].seen,
                                (calls[i].measures \o calls[i].advances)[n].family)
        /\ \A n \in 1..Len(calls[i].renders) : ~calls[i].renders[n].err
        /\ calls[i].face # <<"none">>
        /\ calls[i].measure.width = "estimate" =>
               /\ familiesOf(calls[i].measures) = fontFamilies(req)
               /\ allFailed(calls[i].measures)
        /\ calls[i].measure.width = "measured" =>
               /\ ~calls[i].measures[Len(calls[i].measures)].err
               /\ calls[i].measures[Len(calls[i].measures)].family
                      = calls[i].measure.family

\* One call measured with a loaded font after an earlier call, with no
\* font for any family of the list, used the estimate and drew the text
\* with the built-in face; the font of the later call was registered while
\* that call was measuring, after MeasureText had failed for a family.
C18_Witness ==
    \E i, j \in 1..Len(calls) :
        /\ i < j
        /\ calls[i].measure.width = "estimate"
        /\ calls[i].face = BasicFont
        /\ calls[j].measure.width = "measured"
        /\ Len(calls[j].measures) > 1
        /\ calls[j].measures[1].seen # calls[j].measures[Len(calls[j].measures)].seen

\* ------------------------------------------------------------------------
\* Claims about drawing order
\* ------------------------------------------------------------------------
\* Draw a comes before draw b in the document.
inDocumentOrder(a, b) == a[1] < b[1] \/ (a[1] = b[1] /\ a[2] < b[2])

\* C19: the draws happen in document order: of two drawable items (shapes,
\* character data, tspans), the one that comes earlier in the document is
\* drawn first.
C19_DrawnInDocumentOrder ==
    \A a, b \in 1..Len(ord.log) :
        a < b => inDocumentOrder(ord.log[a], ord.log[b])

\* ------------------------------------------------------------------------
\* Claims about the pairs that follow a moveto
\* ------------------------------------------------------------------------
\* The three points of a MoveInputs path: the moveto's point and the two
\* that follow, which are absolute after M and relative after m.
movePoints(letter) ==
    IF letter = "M"
    THEN << <<1 * Denom, 1 * Denom>>, <<5 * Denom, 0>>, <<5 * Denom, 5 * Denom>> >>
    ELSE << <<1 * Denom, 1 * Denom>>, <<6 * Denom, 1 * Denom>>,
            <<11 * Denom, 6 * Denom>> >>

pixelOf(v, pt) == toPixel(v, pt[1], pt[2])

\* What the fill scanner hands to the rasterizer for such a path: one
\* MoveTo, then a LineTo per further pair.
moveFillItems(v, letter, pts) ==
    << Op("M", letter, pixelOf(v, pts[1])),
       Op("L", IF letter = "M" THEN "L" ELSE "l", pixelOf(v, pts[2])),
       Op("L", IF letter = "M" THEN "L" ELSE "l", pixelOf(v, pts[3])) >>

\* What the stroke scanners collect: a segment per further pair.
moveStrokeSegs(v, pts) ==
    << pixelSeg(pixelOf(v, pts[1]), pixelOf(v, pts[2])),
       pixelSeg(pixelOf(v, pts[2]), pixelOf(v, pts[3])) >>

\* C20: after M (resp. m) and its first pair, every further pair before
\* the next letter is taken as an implicit L (resp. l): it gives a line
\* to that point, starts no new subpath and leaves the subpath start
\* where the moveto put it, so that Z closes to the moveto's point.
C20_PairsAfterMoveAreLines ==
    (data \in MoveInputs /\ sc.pc = "done") =>
        /\ sc.startX = movePoints(data[1])[1][1]
        /\ sc.startY = movePoints(data[1])[1][2]
        /\ scanner = "fill" =>
               sc.out = moveFillItems(vp, data[1], movePoints(data[1]))
                        \o (IF data[Len(data)] = "Z"
                            THEN << Op("Z", "Z", << >>) >> ELSE << >>)
        /\ scanner \in {"stroke", "dash"} =>
               sc.out = moveStrokeSegs(vp, movePoints(data[1]))
                        \o (IF data[Len(data)] = "Z"
                            THEN << pixelSeg(pixelOf(vp, movePoints(data[1])[3]),
                                             pixelOf(vp, movePoints(data[1])[1])) >>
                            ELSE << >>)
        /\ data[Len(data)] = "Z" =>
               sc.curX = sc.startX /\ sc.curY = sc.startY

\* The fill scanner went through "m 1 1 5 0 5 5 Z".
C20_Witness ==
    /\ data = MoveWord("m") \o <<"Z">>
    /\ scanner = "fill"
    /\ sc.pc = "done"
    /\ Len(sc.out) = 4

\* ------------------------------------------------------------------------
\* Claims about closing a subpath
\* ------------------------------------------------------------------------
\* C21: in the three scanners Z/z closes the subpath to its start point
\* and makes the start point the current point: after a round taken with
\* Z/z remembered the current point is the subpath start, and the relative
\* lineto that follows the Z of "M 1 1 L 5 0 Z l 1 2" leaves from (1,1)
\* and ends at (2,3).
C21_CloseResetsToStart ==
    /\ (scanner # "none" /\ iters > 0 /\ sc.lastCmd \in {"Z", "z"}) =>
           sc.curX = sc.startX /\ sc.curY = sc.startY
    /\ (data \in CloseInputs /\ sc.pc = "done") =>
           /\ sc.startX = 1 * Denom /\ sc.startY = 1 * Denom
           /\ sc.curX = 2 * Denom /\ sc.curY = 3 * Denom
           /\ Len(sc.out) > 0
           /\ scanner = "fill" =>
                  sc.out[Len(sc.out)] = Op("L", "l", toPixel(vp, 2 * Denom, 3 * Denom))
           /\ scanner \in {"stroke", "dash"} =>
                  sc.out[Len(sc.out)] = Seg(vp, 1 * Denom, 1 * Denom, 2 * Denom, 3 * Denom)

\* The dashed-stroke scanner went through "m 1 1 L 5 0 z l 1 2".
C21_Witness ==
    /\ data = CloseWord("m", "z")
    /\ scanner = "dash"
    /\ sc.pc = "done"
    /\ Len(sc.out) = 3

\* ------------------------------------------------------------------------
\* Claims about degenerate arcs
\* ------------------------------------------------------------------------
\* The endpoint the first argument group of an ArcInputs path asks for:
\* (e, e), taken from the current point (1,1) after a.
arcEnd(str) ==
    IF str[6] = "A" THEN DigitVal(str[17]) * Denom
    ELSE (1 + DigitVal(str[17])) * Denom

\* The endpoint of the second group.
arcSecondEnd(str) ==
    IF str[6] = "A" THEN 7 * Denom ELSE arcEnd(str) + 7 * Denom

\* C22: in the fill scanner an arc with rx = 0 or ry = 0 gives exactly
\* one straight line to the endpoint, an arc with non-zero radii whose
\* endpoint is the current point gives nothing, the current point is then
\* the requested endpoint, and the next argument group is scanned from
\* there.
C22_DegenerateArcs ==
    (data \in ArcInputs /\ scanner = "fill" /\ sc.pc = "done") =>
        /\ sc.out[1] = Op("M", "M", toPixel(vp, 1 * Denom, 1 * Denom))
        /\ (data[7] = "0" \/ data[9] = "0") =>
               /\ Len(sc.out) = 3
               /\ sc.out[2] = Op("L", data[6], toPixel(vp, arcEnd(data), arcEnd(data)))
        /\ (data[7] # "0" /\ data[9] # "0" /\ arcEnd(data) = 1 * Denom) =>
               Len(sc.out) = 2
        /\ sc.out[Len(sc.out)]
               = Op("L", data[6], toPixel(vp, arcSecondEnd(data), arcSecondEnd(data)))
        /\ sc.curX = arcSecondEnd(data)
        /\ sc.curY = arcSecondEnd(data)

\* The fill scanner went through "M 1 1 a 2 2 0 0 1 0 0 0 0 0 0 0 7 7": an
\* arc with radii whose endpoint is the current point, then one with none.
C22_Witness ==
    /\ data = ArcWord("a", "2", "2", "0")
    /\ scanner = "fill"
    /\ sc.pc = "done"
    /\ Len(sc.out) = 2

\* ------------------------------------------------------------------------
\* Claims about the stop list
\* ------------------------------------------------------------------------
\* C23: every stop list handed to interpolateStops has all its offsets
\* within [0,1] and in ascending order.
C23_StopsClampedAndSorted ==
    (px.kind = "sample" /\ px.drawn) =>
        /\ \A i \in 1..Len(px.stops) :
               px.stops[i].offset >= 0 /\ px.stops[i].offset <= Denom
        /\ \A i \in 1..(Len(px.stops) - 1) :
               px.stops[i].offset <= px.stops[i + 1].offset

\* ------------------------------------------------------------------------
\* Claims about the dash phase
\* ------------------------------------------------------------------------
\* The length of the outline before segment k.
RECURSIVE lengthBefore(_, _)
lengthBefore(segs, k) ==
    IF k <= 1 THEN 0 ELSE lengthBefore(segs, k - 1) + segs[k - 1]

\* The unit stretches of the outline, counted by cumulative length, that
\* the quads cover.
covered(quads, segs) ==
    UNION { (lengthBefore(segs, quads[i].seg) + quads[i].from)
            .. (lengthBefore(segs, quads[i].seg) + quads[i].to - 1)
            : i \in 1..Len(quads) }

RECURSIVE quadsLength(_, _)
quadsLength(quads, i) ==
    IF i > Len(quads) THEN 0
    ELSE (quads[i].to - quads[i].from) + quadsLength(quads, i + 1)

\* dashThickLine run to its end on one straight line, from the loop state d.
RECURSIVE lineQuads(_, _)
lineQuads(d, totalLen) ==
    IF d.pos >= totalLen THEN << >>
    ELSE (IF d.drawing
          THEN addThickLine(1, d.pos, dashThickLine(d, totalLen).pos)
          ELSE << >>)
         \o lineQuads(dashThickLine(d, totalLen), totalLen)

freshDash(dashPx) ==
    [seg |-> 1, pos |-> 0, dashIdx |-> 0, dashPos |-> 0, drawing |-> TRUE,
     dashPx |-> dashPx]

\* C24: the dash phase persists across the vertices of one stroke
\* operation: a dashed polyline, ellipse outline or path covers, by
\* cumulative length, the stretches that one straight line of the same
\* total length dashed from length 0, pattern index 0, state on covers,
\* and no stretch twice.
C24_DashPhasePersists ==
    (stroke.kind # "line" /\ Len(stroke.dasharray) > 0
        /\ ~AllZero(stroke.dasharray) /\ dpc = "done") =>
        /\ covered(runs, stroke.segs)
               = covered(lineQuads(freshDash(dk.dashPx),
                                   lengthBefore(stroke.segs, Len(stroke.segs) + 1)),
                         <<lengthBefore(stroke.segs, Len(stroke.segs) + 1)>>)
        /\ quadsLength(runs, 1) = Cardinality(covered(runs, stroke.segs))

\* A polyline of segments 1 and 2 dashed [2,1] has been stroked: the first
\* dash runs over the vertex.
C24_Witness ==
    /\ stroke.kind = "polyline"
    /\ stroke.segs = <<1, 2>>
    /\ stroke.dasharray = <<2, 1>>
    /\ dpc = "done"
    /\ Len(runs) = 2

\* ------------------------------------------------------------------------
\* Claims about the single clip mask
\* ------------------------------------------------------------------------
\* C25: one clip mask is active at a time.  Outside every group (before
\* the first push, after the last pop, after RenderElements returned) no
\* mask is active; in a group entered with a resolvable clip-path and no
\* clipped group inside it so far, the active mask is that of the group's
\* own definition, whatever was active around it; and once a nested
\* clipped group has been left no mask is active.
C25_OneMaskReplaceAndPop ==
    /\ rstack = << >> => clipMask = Nil
    /\ rstack # << >> =>
           /\ rstack[Len(rstack)].nested => clipMask = Nil
           /\ (resolvable(rstack[Len(rstack)]) /\ ~rstack[Len(rstack)].nested)
                  => clipMask = maskOf(rstack[Len(rstack)].clip)

\* Inside a group clipped by c1, a nested group clipped by c2 is open and
\* c2's mask alone is active.
C25_Witness ==
    /\ Len(rstack) = 2
    /\ resolvable(rstack[1])
    /\ rstack[1].clip = "c1"
    /\ rstack[2].clip = "c2"
    /\ clipMask = maskOf("c2")

\* ------------------------------------------------------------------------
\* Claims about the stored pixel
\* ------------------------------------------------------------------------
\* C26: a solid, gradient or pattern composite leaves the framebuffer
\* pixel as it was whenever the pixel's coverage is 0 or its effective
\* alpha (the coverage scaled by the clip coverage, times the opacity) is 0.
C26_ZeroAlphaLeavesPixel ==
    (px.kind \in {"fill", "stroke", "gradient", "pattern"}
        /\ (px.cov = 0 \/ px.eff * px.opacity = 0)) =>
        px.out = px.bg

\* A pattern fill met a covered pixel under opacity 0 with an opaque tile
\* pixel: the loop stored the pixel, and stored what was there.
C26_Witness ==
    /\ px.kind = "pattern"
    /\ px.cov = 255
    /\ px.eff = 255
    /\ px.opacity = 0
    /\ px.written
    /\ px.out = px.bg

\* The alpha a composite adds at the pixel: mask*opacity for a solid
\* composite, 255*a for a gradient or pattern one, as a whole number; none
\* where the loop passed the pixel over.
addedAlpha(r) ==
    IF ~r.written THEN 0
    ELSE IF r.kind \in {"fill", "stroke"} THEN (r.eff * r.opacity) \div 100
    ELSE (255 * r.eff * r.opacity * r.colA) \div (255 * 100 * 255)

\* C27: output alpha accumulates: after a composite the pixel's alpha is
\* min(255, previous alpha + added alpha), hence not below the previous
\* alpha and within 0..255 whatever pixel the composite met; and scaling
\* the coverage by the clip coverage stays within 16 bits and gives a byte.
C27_AlphaAccumulates ==
    px.kind \in {"fill", "stroke", "gradient", "pattern"} =>
        /\ px.out.a = Min(255, px.bg.a + addedAlpha(px))
        /\ px.out.a >= px.bg.a
        /\ px.out.a \in 0..255
        /\ px.out.c \in 0..255
        /\ px.clip.active =>
               /\ px.cov * px.clip.cov < 65536
               /\ px.eff = (px.cov * px.clip.cov) \div 255

\* A half-opaque gradient composite on a pixel of alpha 128 added to it
\* without reaching 255; an opaque one saturates.
C27_Witness ==
    /\ px.kind = "gradient"
    /\ px.written
    /\ px.bg.a = 128
    /\ px.out.a > 128
    /\ px.out.a < 255

\* ------------------------------------------------------------------------
\* Claims about the three scanners taken together
\* ------------------------------------------------------------------------
\* The state in which scanner k leaves its outer loop on str (the state
\* reached when the rounds allowed are used up, if it does not leave it).
RECURSIVE scanEnd(_, _, _, _, _)
scanEnd(k, v, str, s, fuel) ==
    IF s.pc = "done" \/ fuel = 0 THEN s
    ELSE scanEnd(k, v, str, Round(k, v, str, s), fuel - 1)

\* C28: on the same path data the solid-stroke and the dashed-stroke
\* scanner end with the current point and the subpath start the fill
\* scanner ends with.
C28_ScannersAgreeOnPoints ==
    (scanner \in {"stroke", "dash"} /\ sc.pc = "done"
        /\ scanEnd("fill", vp, data, scanStart, IterCap(data)).pc = "done") =>
        /\ sc.curX = scanEnd("fill", vp, data, scanStart, IterCap(data)).curX
        /\ sc.curY = scanEnd("fill", vp, data, scanStart, IterCap(data)).curY
        /\ sc.startX = scanEnd("fill", vp, data, scanStart, IterCap(data)).startX
        /\ sc.startY = scanEnd("fill", vp, data, scanStart, IterCap(data)).startY

\* ------------------------------------------------------------------------
\* Claims about the two font tables
\* ------------------------------------------------------------------------
\* C29: after any sequence of RegisterFonts and ClearFontCache calls the
\* manager's catalog and the renderer's loaded faces hold the same
\* (family, style) keys and, for each key, the same font source.
C29_CatalogMatchesLoadedFaces ==
    /\ {fontKey(k[1], k[2]) : k \in DOMAIN mfonts} = DOMAIN rfonts
    /\ \A k \in DOMAIN mfonts :
           fontKey(k[1], k[2]) \in DOMAIN rfonts
               => rfonts[fontKey(k[1], k[2])].data = mfonts[k]

\* ------------------------------------------------------------------------
\* Claims about text under a clip mask
\* ------------------------------------------------------------------------
\* C30: text drawn while a clip mask is active is clipped like any other
\* shape: a glyph pixel whose clip coverage is 0 leaves the framebuffer
\* pixel as it was.
C30_TextClipped ==
    (px.kind = "text" /\ px.clip.active /\ px.clip.cov = 0) =>
        px.out = px.bg
====
